---- MODULE Spec2Model ----
(***************************************************************************)
(* Acceptance-criteria extraction of JiraService (jira-service.ts).        *)
(*                                                                         *)
(* Text is modelled as a sequence of one-character strings, so that the    *)
(* regular expressions, split(), trim() and the template literals of the   *)
(* source are computed character by character.                             *)
(***************************************************************************)
EXTENDS Integers, Sequences, FiniteSets, TLC

(***************************************************************************)
(* Bounds of the model.                                                    *)
(***************************************************************************)
\* longest description assembled from Pieces
MaxPieces == 3
\* longest explicit acceptanceCriteria list
MaxExplicit == 2

(***************************************************************************)
(* Characters and words.                                                   *)
(***************************************************************************)
NL == "\n"

UpperChars == <<"A","B","C","D","E","F","G","H","I","J","K","L","M",
                "N","O","P","Q","R","S","T","U","V","W","X","Y","Z">>
LowerChars == <<"a","b","c","d","e","f","g","h","i","j","k","l","m",
                "n","o","p","q","r","s","t","u","v","w","x","y","z">>
Digits == <<"0","1","2","3","4","5","6","7","8","9">>

\* String.prototype.toLowerCase on one character (the /i flag of the regexes)
LowerChar(c) ==
    IF \E i \in 1..26 : UpperChars[i] = c
    THEN LowerChars[CHOOSE i \in 1..26 : UpperChars[i] = c]
    ELSE c

\* \s of the regexes and the characters removed by trim()
IsSpace(c) == c \in {" ", "\n", "\t", "\r"}

\* the characters the dot of a regex does not match
IsLineTerminator(c) == c \in {"\n", "\r"}

\* \d of the regexes
IsDigit(c) == \E i \in 1..10 : Digits[i] = c

\* String.prototype.trim
Trim(t) ==
    LET nonsp == {i \in 1..Len(t) : ~IsSpace(t[i])}
    IN  IF nonsp = {} THEN <<>>
        ELSE SubSeq(t, CHOOSE i \in nonsp : \A j \in nonsp : i <= j,
                       CHOOSE i \in nonsp : \A j \in nonsp : i >= j)

\* the literal word w (lower case) occurs in t at position pos, ignoring case
LitAt(t, pos, w) ==
    /\ pos >= 1
    /\ pos + Len(w) - 1 <= Len(t)
    /\ \A k \in 1..Len(w) : LowerChar(t[pos + k - 1]) = w[k]

\* RegExp.test of a literal word with the /i flag
ContainsCI(t, w) == \E pos \in 1..Len(t) : LitAt(t, pos, w)

\* number of characters from pos on that satisfy the class
RECURSIVE SpaceRun(_, _)
SpaceRun(t, pos) ==
    IF pos <= Len(t) /\ IsSpace(t[pos]) THEN 1 + SpaceRun(t, pos + 1) ELSE 0

RECURSIVE DotRun(_, _)
DotRun(t, pos) ==
    IF pos <= Len(t) /\ ~IsLineTerminator(t[pos]) THEN 1 + DotRun(t, pos + 1) ELSE 0

RECURSIVE DigitRun(_, _)
DigitRun(t, pos) ==
    IF pos <= Len(t) /\ IsDigit(t[pos]) THEN 1 + DigitRun(t, pos + 1) ELSE 0

SetMax(S) == CHOOSE x \in S : \A y \in S : x >= y
SetMin(S) == CHOOSE x \in S : \A y \in S : x <= y

\* concatenation of a sequence of texts
RECURSIVE Concat(_)
Concat(ts) == IF ts = <<>> THEN <<>> ELSE Head(ts) \o Concat(Tail(ts))

\* decimal digits of a positive number, as `${n}` prints it
RECURSIVE Decimal(_)
Decimal(n) ==
    IF n < 10 THEN <<Digits[n + 1]>>
    ELSE Decimal(n \div 10) \o <<Digits[(n % 10) + 1]>>

(***************************************************************************)
(* The regular expressions of getAcceptanceCriteria and                    *)
(* parseAcceptanceCriteria.                                                *)
(***************************************************************************)
W_ac == <<"a","c">>
W_acceptance_criteri == <<"a","c","c","e","p","t","a","n","c","e"," ","c","r","i","t","e","r","i">>
W_given == <<"g","i","v","e","n">>
W_when == <<"w","h","e","n">>
W_then == <<"t","h","e","n">>

\* the positions from `from` on where the word w occurs, ignoring case
Occurrences(t, from, w) == {pos \in from..Len(t) : LitAt(t, pos, w)}

\* /Given.*When.*Then/i matches somewhere: the three words in this order
\* with no line terminator between them
GivenWhenThenOnLine(t) ==
    \E g \in Occurrences(t, 1, W_given) :
        \E w \in Occurrences(t, g + 5, W_when) :
            \E h \in Occurrences(t, w + 4, W_then) :
                \A k \in (g + 5)..(h - 1) : ~IsLineTerminator(t[k])

\* AcMatches with AC as a word of its own: /\bAC\b/ in place of /AC/
AcMatchesWords(t) ==
    \/ \E pos \in 1..Len(t) :
          /\ LitAt(t, pos, W_ac)
          /\ pos > 1 =>
                \A k \in 1..Len(LowerChars) : LowerChars[k] # LowerChar(t[pos - 1])
          /\ pos + 2 <= Len(t) =>
                \A k \in 1..Len(LowerChars) : LowerChars[k] # LowerChar(t[pos + 2])
    \/ ContainsCI(t, W_acceptance_criteri)
    \/ GivenWhenThenOnLine(t)

\* description.match(/(?:AC|Acceptance Criteria?|Given.*When.*Then)/gi) is not null
AcMatches(t) ==
    \/ ContainsCI(t, W_ac)
    \/ ContainsCI(t, W_acceptance_criteri)
    \/ GivenWhenThenOnLine(t)

\* the match of /\n\s*\n/ that starts at pos: the position after it, or 0.
\* \s* is greedy, so the match runs to the last newline of the blank run.
ParagraphBreakAt(t, pos) ==
    IF pos > Len(t) \/ t[pos] # NL THEN 0
    ELSE LET run == SpaceRun(t, pos + 1)
             ends == {j \in (pos + 1)..(pos + run) : t[j] = NL}
         IN  IF ends = {} THEN 0 ELSE SetMax(ends) + 1

\* text.split(/\n\s*\n/), scanning from position q with the piece open at p
RECURSIVE SplitBlank(_, _, _)
SplitBlank(t, p, q) ==
    IF q > Len(t) THEN <<SubSeq(t, p, Len(t))>>
    ELSE LET e == ParagraphBreakAt(t, q)
         IN  IF e = 0 THEN SplitBlank(t, p, q + 1)
             ELSE <<SubSeq(t, p, q - 1)>> \o SplitBlank(t, e, e)

\* text.split(/\n\s*\n/).filter(p => p.trim())
Paragraphs(t) == SelectSeq(SplitBlank(t, 1, 1), LAMBDA p : Trim(p) # <<>>)

\* text.split('\n')
RECURSIVE SplitLinesFrom(_, _, _)
SplitLinesFrom(t, p, q) ==
    IF q > Len(t) THEN <<SubSeq(t, p, Len(t))>>
    ELSE IF t[q] = NL THEN <<SubSeq(t, p, q - 1)>> \o SplitLinesFrom(t, q + 1, q + 1)
    ELSE SplitLinesFrom(t, p, q + 1)

SplitLines(t) == SplitLinesFrom(t, 1, 1)

\* /^\s*GIVEN/i.test(paragraph)
StartsWithGiven(p) == LitAt(p, SpaceRun(p, 1) + 1, W_given)

\* The backtracking match of
\*   /GIVEN\s+(.+?)\s+WHEN\s+(.+?)\s+THEN\s+(.+?)(?:\s*$|\n)/i
\* from the pattern element `stage` on, at position pos: the position after
\* the match, or 0 when there is none.  GwtTry gives the repetition of an
\* element the ends k, k + step, ... up to last, and keeps the first one
\* from which the rest of the pattern matches: greedy elements try the
\* longest repetition first (step -1), lazy ones the shortest (step 1).
RECURSIVE GwtFrom(_, _, _), GwtTry(_, _, _, _, _)
GwtFrom(t, stage, pos) ==
    CASE stage \in {1, 5, 9} ->
            LET w == IF stage = 1 THEN W_given
                     ELSE IF stage = 5 THEN W_when ELSE W_then
            IN  IF LitAt(t, pos, w) THEN GwtFrom(t, stage + 1, pos + Len(w)) ELSE 0
      [] stage \in {2, 4, 6, 8, 10} ->
            GwtTry(t, stage + 1, pos + SpaceRun(t, pos), pos + 1, -1)
      [] stage \in {3, 7, 11} ->
            GwtTry(t, stage + 1, pos + 1, pos + DotRun(t, pos), 1)
      [] OTHER ->
            IF pos + SpaceRun(t, pos) = Len(t) + 1 THEN Len(t) + 1
            ELSE IF pos <= Len(t) /\ t[pos] = NL THEN pos + 1
            ELSE 0

GwtTry(t, stage, k, last, step) ==
    IF (step > 0 /\ k > last) \/ (step < 0 /\ k < last) THEN 0
    ELSE LET r == GwtFrom(t, stage, k)
         IN  IF r # 0 THEN r ELSE GwtTry(t, stage, k + step, last, step)

\* paragraph.match(/GIVEN...THEN\s+(.+?)(?:\s*$|\n)/gi): with the g flag the
\* result holds the whole text of every match, left to right, and no
\* capture groups; the empty sequence stands for null.
RECURSIVE GwtMatchesFrom(_, _)
GwtMatchesFrom(t, from) ==
    IF from > Len(t) THEN <<>>
    ELSE LET e == GwtFrom(t, 1, from)
         IN  IF e = 0 THEN GwtMatchesFrom(t, from + 1)
             ELSE <<SubSeq(t, from, e - 1)>> \o GwtMatchesFrom(t, e)

GwtMatch(p) == GwtMatchesFrom(p, 1)

\* length of the leading marker matched by (?:\d+\.|\*|-), or 0
MarkerLen(l) ==
    IF l = <<>> THEN 0
    ELSE IF l[1] \in {"*", "-"} THEN 1
    ELSE LET d == DigitRun(l, 1)
         IN  IF d > 0 /\ d + 1 <= Len(l) /\ l[d + 1] = "." THEN d + 1 ELSE 0

\* /^(?:\d+\.|\*|-)\s*(.+)/.test(trimmedLine)
StartsWithMarker(l) ==
    LET m == MarkerLen(l)
    IN  /\ m > 0
        /\ \E k \in 0..SpaceRun(l, m + 1) :
              m + k + 1 <= Len(l) /\ ~IsLineTerminator(l[m + k + 1])

ModalWords ==
    { <<"s","h","o","u","l","d">>, <<"m","u","s","t">>, <<"w","i","l","l">>,
      <<"s","h","a","l","l">>, <<"c","a","n">>, <<"a","b","l","e"," ","t","o">> }

\* /(?:should|must|will|shall|can|able to)/i.test(trimmedLine)
HasModalWord(l) == \E w \in ModalWords : ContainsCI(l, w)

\* trimmedLine.replace(/^(?:\d+\.|\*|-)\s*/, '').trim()
StripMarker(l) ==
    LET m == MarkerLen(l)
    IN  IF m = 0 THEN Trim(l)
        ELSE Trim(SubSeq(l, m + SpaceRun(l, m + 1) + 1, Len(l)))

(***************************************************************************)
(* Texts: the literals of the template strings, and the inputs of the      *)
(* model.                                                                  *)
(***************************************************************************)
\* 'AC-'
L_AC ==
    <<"A","C","-">>

\* '-AC-'
L_DashAC ==
    <<"-","A","C","-">>

\* 'GIVEN '
L_GIVEN ==
    <<"G","I","V","E","N"," ">>

\* '\nWHEN '
L_WHEN ==
    <<"\n","W","H","E","N"," ">>

\* '\nTHEN '
L_THEN ==
    <<"\n","T","H","E","N"," ">>

\* 'Test: '
L_Test ==
    <<"T","e","s","t",":"," ">>

\* 'Expected: '
L_Expected ==
    <<"E","x","p","e","c","t","e","d",":"," ">>

\* pieces a description is assembled from
\* 'GIVEN a WHEN b THEN c\n'
P_Gwt ==
    <<"G","I","V","E","N"," ","a"," ","W","H","E","N"," ","b"," ","T","H",
      "E","N"," ","c","\n">>

\* '\n'
P_Blank ==
    <<"\n">>

\* 'GIVEN a user\n'
P_Given ==
    <<"G","I","V","E","N"," ","a"," ","u","s","e","r","\n">>

\* 'AC\n'
P_Marker ==
    <<"A","C","\n">>

\* '- Users can log in\n'
P_Bullet ==
    <<"-"," ","U","s","e","r","s"," ","c","a","n"," ","l","o","g"," ","i",
      "n","\n">>

Pieces == {P_Gwt, P_Blank, P_Given, P_Marker, P_Bullet}

\* descriptions taken from the documentation of the extraction
\* 'GIVEN a user WHEN they click submit THEN an error shows'
D_GwtSentence ==
    <<"G","I","V","E","N"," ","a"," ","u","s","e","r"," ","W","H","E","N",
      " ","t","h","e","y"," ","c","l","i","c","k"," ","s","u","b","m","i",
      "t"," ","T","H","E","N"," ","a","n"," ","e","r","r","o","r"," ","s",
      "h","o","w","s">>

\* 'GIVEN a user WHEN they click submit THEN an error shows\n\n'
D_GwtRendered ==
    <<"G","I","V","E","N"," ","a"," ","u","s","e","r"," ","W","H","E","N",
      " ","t","h","e","y"," ","c","l","i","c","k"," ","s","u","b","m","i",
      "t"," ","T","H","E","N"," ","a","n"," ","e","r","r","o","r"," ","s",
      "h","o","w","s","\n","\n">>

\* '- Users can log in\n- Users can log out\nThis is a note.\n'
D_Bullets ==
    <<"-"," ","U","s","e","r","s"," ","c","a","n"," ","l","o","g"," ","i",
      "n","\n","-"," ","U","s","e","r","s"," ","c","a","n"," ","l","o","g",
      " ","o","u","t","\n","T","h","i","s"," ","i","s"," ","a"," ","n","o",
      "t","e",".","\n">>

\* 'AC\n- Users can log in\n- Users can log out\nThis is a note.\n'
D_MarkedBullets ==
    <<"A","C","\n","-"," ","U","s","e","r","s"," ","c","a","n"," ","l","o",
      "g"," ","i","n","\n","-"," ","U","s","e","r","s"," ","c","a","n"," ",
      "l","o","g"," ","o","u","t","\n","T","h","i","s"," ","i","s"," ","a",
      " ","n","o","t","e",".","\n">>

\* 'GIVEN a WHEN b THEN c\nGIVEN a WHEN b THEN c\nGIVEN a WHEN b THEN c\nGIVEN a WHEN b THEN c\n'
D_FourGwt ==
    <<"G","I","V","E","N"," ","a"," ","W","H","E","N"," ","b"," ","T","H",
      "E","N"," ","c","\n","G","I","V","E","N"," ","a"," ","W","H","E","N",
      " ","b"," ","T","H","E","N"," ","c","\n","G","I","V","E","N"," ","a",
      " ","W","H","E","N"," ","b"," ","T","H","E","N"," ","c","\n","G","I",
      "V","E","N"," ","a"," ","W","H","E","N"," ","b"," ","T","H","E","N",
      " ","c","\n">>

\* 'AC\n-- Users must log in\n- ok\n- tenchars\n1. each item works\n12345678901.\n'
D_Markers ==
    <<"A","C","\n","-","-"," ","U","s","e","r","s"," ","m","u","s","t"," ",
      "l","o","g"," ","i","n","\n","-"," ","o","k","\n","-"," ","t","e","n",
      "c","h","a","r","s","\n","1","."," ","e","a","c","h"," ","i","t","e",
      "m"," ","w","o","r","k","s","\n","1","2","3","4","5","6","7","8","9",
      "0","1",".","\n">>

\* 'AC\n\nGIVEN a user\n\nGIVEN an admin\n'
D_TwoGiven ==
    <<"A","C","\n","\n","G","I","V","E","N"," ","a"," ","u","s","e","r",
      "\n","\n","G","I","V","E","N"," ","a","n"," ","a","d","m","i","n","\n">>

\* 'Users must have an account\n'
D_Account ==
    <<"U","s","e","r","s"," ","m","u","s","t"," ","h","a","v","e"," ","a",
      "n"," ","a","c","c","o","u","n","t","\n">>

\* 'Each item works\n'
D_Each ==
    <<"E","a","c","h"," ","i","t","e","m"," ","w","o","r","k","s","\n">>

Documented == {D_GwtSentence, D_GwtRendered, D_Bullets, D_MarkedBullets,
               D_FourGwt, D_Markers, D_TwoGiven, D_Account, D_Each}

\* the sequences over S of length at most n
RECURSIVE SeqsUpTo(_, _)
SeqsUpTo(S, n) ==
    IF n = 0 THEN {<<>>}
    ELSE LET shorter == SeqsUpTo(S, n - 1)
         IN  shorter \cup {Append(q, x) : q \in shorter, x \in S}

\* the descriptions of the model (the empty text included)
Descriptions == Documented \cup {Concat(ps) : ps \in SeqsUpTo(Pieces, MaxPieces)}

\* elements of an explicit acceptanceCriteria list
\* '  '
E_Blank ==
    <<" "," ">>

\* '- y'
E_Bullet ==
    <<"-"," ","y">>

ExplicitElements == {E_Blank, E_Bullet}

ExplicitLists == SeqsUpTo(ExplicitElements, MaxExplicit)

\* issue keys, the empty key included
\* ''
K_Empty ==
    <<>>

\* 'P-1'
K_Proj ==
    <<"P","-","1">>

IssueKeys == {K_Empty, K_Proj}

\* an optional field: None when it is not set, Some(v) when it holds v
None == <<>>
Some(v) == <<v>>
ValueOf(o) == o[1]

(***************************************************************************)
(* The criteria built by the two functions.                                *)
(***************************************************************************)
\* AcId that prints the counter after its increment: `AC-${index + 1}`
AcIdAfterIncrement(idx) == L_AC \o Decimal(idx + 1)

\* `AC-${index}`
AcId(idx) == L_AC \o Decimal(idx)

\* the evaluation of gwtMatch[1].trim(), gwtMatch[2].trim() or
\* gwtMatch[3].trim() throws a TypeError when the element is undefined
\* (gwtMatch[k] of the source is m[k + 1] here)
GwtThrows(m) == Len(m) < 4

\* the criterion of the branch `if (gwtMatch)`
GwtCriterion(m, idx) ==
    [ id        |-> AcId(idx),
      criterion |-> L_GIVEN \o Trim(m[2]) \o L_WHEN \o Trim(m[3])
                            \o L_THEN \o Trim(m[4]),
      status    |-> "pending",
      testCases |-> << L_Test \o Trim(m[3]), L_Expected \o Trim(m[4]) >> ]

\* PartialCriterion with the paragraph as it is, not trimmed
PartialCriterionUntrimmed(p, idx) ==
    [ id |-> AcId(idx), criterion |-> p, status |-> "pending" ]

\* the criterion of the else branch: the paragraph is not a complete GWT
PartialCriterion(p, idx) ==
    [ id |-> AcId(idx), criterion |-> Trim(p), status |-> "pending" ]

\* IsAcLine that also takes lines of exactly 10 characters
IsAcLineFromTen(l) == (StartsWithMarker(l) \/ HasModalWord(l)) /\ Len(l) >= 10

\* isAC && trimmedLine.length > 10
IsAcLine(l) == (StartsWithMarker(l) \/ HasModalWord(l)) /\ Len(l) > 10

\* HeuristicCriterion with the testCases of the GWT branch copied over
HeuristicCriterionWithTests(l, idx) ==
    [ id |-> AcId(idx), criterion |-> StripMarker(l), status |-> "pending",
      testCases |-> << L_Test \o StripMarker(l) >> ]

\* the criterion of an accepted line
HeuristicCriterion(l, idx) ==
    [ id |-> AcId(idx), criterion |-> StripMarker(l), status |-> "pending" ]

\* ExplicitId without the issue key: `AC-${index + 1}`
ExplicitIdWithoutKey(key, i) == L_AC \o Decimal(i + 1)

\* `${issueKey}-AC-${index + 1}`, index counting from 0
ExplicitId(key, i) == key \o L_DashAC \o Decimal(i + 1)

\* ExplicitCriterion numbered by the index itself: `${issueKey}-AC-${index}`
ExplicitCriterionFromZero(key, ac, i) ==
    [ id |-> key \o L_DashAC \o Decimal(i), criterion |-> ac, status |-> "pending" ]

\* the callback of issue.acceptanceCriteria.map
ExplicitCriterion(key, ac, i) ==
    [ id |-> ExplicitId(key, i), criterion |-> ac, status |-> "pending" ]

\* issue.acceptanceCriteria.map((ac, index) => ...)
ExplicitCriteria(key, acs) ==
    [ k \in 1..Len(acs) |-> ExplicitCriterion(key, acs[k], k - 1) ]

(***************************************************************************)
(* extractTextFromADF: the text of a document tree.  A node is a record    *)
(* with the field type and, when it has them, the fields text, content     *)
(* and attrs.                                                              *)
(***************************************************************************)
\* deepest nesting of the nodes of a generated document
MaxNesting == 2
\* most top-level nodes of a document assembled from SiblingNodes
MaxSiblings == 2

\* 'undefined'
L_Undefined ==
    <<"u","n","d","e","f","i","n","e","d">>

\* '- '
L_Dash ==
    <<"-"," ">>

\* the character U+0060, which a string of this language cannot hold
Backtick == "U+0060"

\* three backticks
L_Fence == <<Backtick, Backtick, Backtick>>

\* the fence and '\n'
L_FenceOpen == L_Fence \o <<NL>>

\* '\n', the fence and '\n\n'
L_FenceClose == <<NL>> \o L_Fence \o <<NL, NL>>

\* `if (item.content)`: an array, also an empty one, is truthy
HasContent(item) == "content" \in DOMAIN item

\* result += item.text
TextOf(item) == IF "text" \in DOMAIN item THEN item.text ELSE L_Undefined

\* HeadingLevel without `|| 1`: no level gives no '#'
HeadingLevelWithoutDefault(item) ==
    IF "attrs" \in DOMAIN item /\ "level" \in DOMAIN item.attrs
    THEN item.attrs.level ELSE 0

\* item.attrs?.level || 1
HeadingLevel(item) ==
    IF "attrs" \in DOMAIN item /\ "level" \in DOMAIN item.attrs
       /\ item.attrs.level # 0
    THEN item.attrs.level ELSE 1

\* '#'.repeat(level)
Hashes(level) == [k \in 1..level |-> "#"]

\* ParagraphText with a single line break
ParagraphTextOneBreak(body) == body \o <<NL>>

\* extractFromContent(item.content) + '\n\n'
ParagraphText(body) == body \o <<NL, NL>>

\* ListItemText with the bullet of the source document
ListItemTextStar(body) == <<"*", " ">> \o body \o <<NL>>

\* '- ' + extractFromContent(listItem.content) + '\n'
ListItemText(body) == L_Dash \o body \o <<NL>>

\* fence + '\n' + extractFromContent(item.content) + '\n' + fence + '\n\n'
CodeBlockText(body) == L_FenceOpen \o body \o L_FenceClose

\* '#'.repeat(level) + ' ' + extractFromContent(item.content) + '\n\n'
HeadingText(level, body) == Hashes(level) \o <<" ">> \o body \o <<NL, NL>>

\* one turn of `for (const item of content)`: what the item adds to result;
\* ExtractFromContent is the inner function extractFromContent, ListText
\* the loop over the children of a list
RECURSIVE ItemText(_), ExtractFromContent(_), ListText(_)
ItemText(item) ==
    IF item.type = "text" THEN TextOf(item)
    ELSE IF item.type = "paragraph"
    THEN IF HasContent(item)
         THEN ParagraphText(ExtractFromContent(item.content)) ELSE <<>>
    ELSE IF item.type \in {"bulletList", "orderedList"}
    THEN IF HasContent(item) THEN ListText(item.content) \o <<NL>> ELSE <<>>
    ELSE IF item.type = "codeBlock"
    THEN IF HasContent(item)
         THEN CodeBlockText(ExtractFromContent(item.content)) ELSE <<>>
    ELSE IF item.type = "heading"
    THEN IF HasContent(item)
         THEN HeadingText(HeadingLevel(item), ExtractFromContent(item.content))
         ELSE <<>>
    ELSE IF HasContent(item) THEN ExtractFromContent(item.content)
    ELSE <<>>

ExtractFromContent(content) ==
    IF content = <<>> THEN <<>>
    ELSE ItemText(Head(content)) \o ExtractFromContent(Tail(content))

ListText(content) ==
    IF content = <<>> THEN <<>>
    ELSE (IF Head(content).type = "listItem" /\ HasContent(Head(content))
          THEN ListItemText(ExtractFromContent(Head(content).content))
          ELSE <<>>) \o ListText(Tail(content))

\* the nodes of the documents
TextNode(t) == [type |-> "text", text |-> t]
Bare(k) == [type |-> k]
With(k, c) == [type |-> k, content |-> c]
Heading(l, c) == [type |-> "heading", attrs |-> [level |-> l], content |-> c]

\* 'Title'
T_Title ==
    <<"T","i","t","l","e">>

\* 'Users can log in'
T_Can ==
    <<"U","s","e","r","s"," ","c","a","n"," ","l","o","g"," ","i","n">>

T_Marker == Trim(P_Marker)
T_Given == Trim(P_Given)
T_Gwt == Trim(P_Gwt)

TextNodes == {TextNode(t) : t \in {T_Title, T_Can, T_Marker, T_Given, T_Gwt}}

\* the kinds of nodes with children; panel stands for the kinds that
\* extractTextFromADF has no branch for
Kinds == {"paragraph", "bulletList", "orderedList", "listItem", "codeBlock",
          "heading", "panel"}

\* the nodes nested at most d deep, each with no, an empty or a
\* one-element content
RECURSIVE NodesOfDepth(_)
NodesOfDepth(dep) ==
    IF dep = 0 THEN TextNodes \cup {Bare(k) : k \in Kinds}
    ELSE LET below == NodesOfDepth(dep - 1)
             contents == {<<>>} \cup {<<n>> : n \in below}
         IN  below \cup {With(k, c) : k \in Kinds, c \in contents}
                   \cup {Heading(2, c) : c \in contents}

\* the nodes that documents of several top-level nodes are assembled from
SiblingNodes ==
    { Bare("paragraph"),
      With("paragraph", <<>>),
      With("paragraph", <<TextNode(T_Marker)>>),
      With("paragraph", <<TextNode(T_Given)>>),
      With("paragraph", <<TextNode(T_Title), TextNode(T_Can)>>),
      With("paragraph", <<With("paragraph", <<TextNode(T_Title)>>)>>),
      TextNode(T_Marker),
      With("bulletList", <<With("listItem", <<TextNode(T_Can)>>)>>),
      Heading(2, <<TextNode(T_Title)>>) }

\* a heading of level 2 with the text child Title
C_Heading == << Heading(2, <<TextNode(T_Title)>>) >>

\* lists with list items, with a child that is no list item, and with a
\* list item without children
C_Lists ==
    << With("paragraph", <<TextNode(T_Marker)>>),
       With("bulletList", << With("listItem", <<TextNode(T_Can)>>),
                             With("listItem", <<With("paragraph", <<TextNode(T_Can)>>)>>) >>),
       With("orderedList", << With("listItem", <<TextNode(T_Can)>>),
                              TextNode(T_Title),
                              Bare("listItem"),
                              With("listItem", <<TextNode(T_Title)>>) >>) >>

\* nodes of a kind without a branch, and a heading without level
C_Unknown ==
    << With("panel", <<TextNode(T_Title), TextNode(T_Marker)>>),
       Bare("rule"),
       With("heading", <<TextNode(T_Title)>>),
       [type |-> "heading", attrs |-> [id |-> 1], content |-> <<TextNode(T_Can)>>] >>

\* the content arrays of the documents
Contents ==
    {<<n>> : n \in NodesOfDepth(MaxNesting)}
        \cup SeqsUpTo(SiblingNodes, MaxSiblings)
        \cup {C_Heading, C_Lists, C_Unknown}

\* fields.description: null, a document without content, or a document
Documents ==
    {None, Some(Bare("doc"))} \cup {Some(With("doc", c)) : c \in Contents}

(***************************************************************************)
(* One call of getAcceptanceCriteria(issue, issueKey).                     *)
(***************************************************************************)
VARIABLES
    description,        \* issue.description, optional
    acceptanceCriteria, \* issue.acceptanceCriteria, optional
    issueKey,           \* the issueKey argument
    pc,                 \* where the call is
    criteria,           \* the array of getAcceptanceCriteria
    parsed,             \* the array of parseAcceptanceCriteria
    index,              \* the counter of parseAcceptanceCriteria
    paragraphs,         \* paragraphs the first loop has yet to visit
    lines,              \* lines the second loop has yet to visit
    madeBy              \* history: the branch that made each criterion

\* mapJiraIssue: the document that extractTextFromADF turns into the
\* description
VARIABLES
    adf,                \* fields.description, optional
    items,              \* top-level nodes the loop has yet to visit
    text                \* result of the outermost extractFromContent

\* concurrent calls of getAcceptanceCriteria
VARIABLES
    calls               \* the frame of every call

\* extractFromContent on a document that is a chain of nested nodes
VARIABLES
    frames,             \* activations of extractFromContent on the stack
    levels              \* nodes of the chain below the one being visited

\* one run of a script
VARIABLES
    script,             \* the script that runs, or the caller of updateIssue
    at,                 \* the statement of the script that is next
    out,                \* history: requests that were sent and lines printed
    job                 \* the arguments, local values and replies of the run

renderVars == << adf, items, text >>

deepVars == << frames, levels >>

scriptVars == << script, at, out, job >>

\* no chain is rendered
DeepIdle == frames = 0 /\ levels = 0

\* no script runs
ScriptIdle == script = "none" /\ at = "none" /\ out = <<>> /\ job = <<>>

vars == << description, acceptanceCriteria, issueKey, pc, criteria, parsed,
           index, paragraphs, lines, madeBy, adf, items, text, calls,
           frames, levels, script, at, out, job >>

Init ==
    /\ description \in {None} \cup {Some(d) : d \in Descriptions}
    /\ acceptanceCriteria \in {None} \cup {Some(l) : l \in ExplicitLists}
    /\ issueKey \in IssueKeys
    /\ pc = "start"
    /\ criteria = <<>>
    /\ parsed = <<>>
    /\ index = 1
    /\ paragraphs = <<>>
    /\ lines = <<>>
    /\ madeBy = <<>>
    /\ adf = None
    /\ items = <<>>
    /\ text = <<>>
    /\ calls = <<>>
    /\ DeepIdle
    /\ ScriptIdle

\* Gate without `if (acMatches)`: every description is parsed
GateWithoutMarkerTest ==
    /\ pc = "start"
    /\ IF description # None /\ ValueOf(description) # <<>>
       THEN /\ pc' = "paragraphs"
            /\ parsed' = <<>>
            /\ index' = 1
            /\ paragraphs' = Paragraphs(ValueOf(description))
       ELSE /\ pc' = "explicit"
            /\ UNCHANGED << parsed, index, paragraphs >>
    /\ UNCHANGED << renderVars, calls, deepVars, scriptVars >>
    /\ UNCHANGED << description, acceptanceCriteria, issueKey, criteria,
                    lines, madeBy >>

\* if (issue.description) { const acMatches = ...; if (acMatches) { parse } }
\* up to the split into paragraphs at the head of parseAcceptanceCriteria
Gate ==
    /\ pc = "start"
    /\ IF description # None /\ ValueOf(description) # <<>>
          /\ AcMatches(ValueOf(description))
       THEN /\ pc' = "paragraphs"
            /\ parsed' = <<>>
            /\ index' = 1
            /\ paragraphs' = Paragraphs(ValueOf(description))
       ELSE /\ pc' = "explicit"
            /\ UNCHANGED << parsed, index, paragraphs >>
    /\ UNCHANGED << renderVars, calls, deepVars, scriptVars >>
    /\ UNCHANGED << description, acceptanceCriteria, issueKey, criteria,
                    lines, madeBy >>

\* one turn of `for (const paragraph of paragraphs)`
ParagraphStep ==
    /\ pc = "paragraphs"
    /\ paragraphs # <<>>
    /\ LET p == Head(paragraphs)
           m == GwtMatch(p)
       IN  IF ~StartsWithGiven(p)
           THEN UNCHANGED << pc, parsed, index, madeBy >>
           ELSE IF m # <<>>
           THEN IF GwtThrows(m)
                THEN /\ pc' = "rejected"
                     /\ UNCHANGED << parsed, index, madeBy >>
                ELSE /\ parsed' = Append(parsed, GwtCriterion(m, index))
                     /\ index' = index + 1
                     /\ madeBy' = Append(madeBy, "gwt")
                     /\ UNCHANGED pc
           ELSE /\ parsed' = Append(parsed, PartialCriterion(p, index))
                /\ index' = index + 1
                /\ madeBy' = Append(madeBy, "gwt")
                /\ UNCHANGED pc
    /\ paragraphs' = Tail(paragraphs)
    /\ UNCHANGED << renderVars, calls, deepVars, scriptVars >>
    /\ UNCHANGED << description, acceptanceCriteria, issueKey, criteria, lines >>

\* ParagraphsEnd without `if (criteria.length === 0)`: the line loop always runs
ParagraphsEndAlwaysLines ==
    /\ pc = "paragraphs"
    /\ paragraphs = <<>>
    /\ pc' = "lines"
    /\ lines' = SplitLines(ValueOf(description))
    /\ UNCHANGED << renderVars, calls, deepVars, scriptVars >>
    /\ UNCHANGED << description, acceptanceCriteria, issueKey, criteria, parsed,
                    index, paragraphs, madeBy >>

\* the first loop is over: `if (criteria.length === 0)` chooses between the
\* line loop and the return to getAcceptanceCriteria
ParagraphsEnd ==
    /\ pc = "paragraphs"
    /\ paragraphs = <<>>
    /\ IF parsed = <<>>
       THEN /\ pc' = "lines"
            /\ lines' = SplitLines(ValueOf(description))
            /\ UNCHANGED criteria
       ELSE /\ pc' = "explicit"
            /\ criteria' = criteria \o parsed
            /\ UNCHANGED lines
    /\ UNCHANGED << renderVars, calls, deepVars, scriptVars >>
    /\ UNCHANGED << description, acceptanceCriteria, issueKey, parsed, index,
                    paragraphs, madeBy >>

\* one turn of `for (const line of lines)`
LineStep ==
    /\ pc = "lines"
    /\ lines # <<>>
    /\ LET trimmedLine == Trim(Head(lines))
       IN  IF IsAcLine(trimmedLine)
           THEN /\ parsed' = Append(parsed, HeuristicCriterion(trimmedLine, index))
                /\ index' = index + 1
                /\ madeBy' = Append(madeBy, "heuristic")
           ELSE UNCHANGED << parsed, index, madeBy >>
    /\ lines' = Tail(lines)
    /\ UNCHANGED << renderVars, calls, deepVars, scriptVars >>
    /\ UNCHANGED << description, acceptanceCriteria, issueKey, pc, criteria,
                    paragraphs >>

\* the second loop is over: return criteria, pushed by the caller
LinesEnd ==
    /\ pc = "lines"
    /\ lines = <<>>
    /\ pc' = "explicit"
    /\ criteria' = criteria \o parsed
    /\ UNCHANGED << renderVars, calls, deepVars, scriptVars >>
    /\ UNCHANGED << description, acceptanceCriteria, issueKey, parsed, index,
                    paragraphs, lines, madeBy >>

\* if (issue.acceptanceCriteria) { criteria.push(...map) }  return criteria
Explicit ==
    /\ pc = "explicit"
    /\ IF acceptanceCriteria # None
       THEN /\ criteria' = criteria \o
                   ExplicitCriteria(issueKey, ValueOf(acceptanceCriteria))
            /\ madeBy' = madeBy \o
                   [k \in 1..Len(ValueOf(acceptanceCriteria)) |-> "explicit"]
       ELSE UNCHANGED << criteria, madeBy >>
    /\ pc' = "done"
    /\ UNCHANGED << renderVars, calls, deepVars, scriptVars >>
    /\ UNCHANGED << description, acceptanceCriteria, issueKey, parsed, index,
                    paragraphs, lines >>

\* the locals of a call that has not begun
callVars == << acceptanceCriteria, issueKey, criteria, parsed, index,
               paragraphs, lines, madeBy >>

\* MapIssue without the guard of extractTextFromADF: reading content of
\* null, or looping over undefined, throws a TypeError
MapIssueWithoutGuard ==
    /\ pc = "map"
    /\ IF adf = None \/ ~HasContent(ValueOf(adf))
       THEN /\ pc' = "rejected"
            /\ UNCHANGED << items, text >>
       ELSE /\ pc' = "render"
            /\ items' = ValueOf(adf).content
            /\ text' = <<>>
    /\ UNCHANGED << description, adf, calls, callVars,
                    deepVars, scriptVars >>

\* mapJiraIssue calls extractTextFromADF(fields.description):
\* `if (!adfContent || !adfContent.content) return ''`, else the loop of
\* extractFromContent(adfContent.content) begins
MapIssue ==
    /\ pc = "map"
    /\ IF adf = None \/ ~HasContent(ValueOf(adf))
       THEN /\ description' = Some(<<>>)
            /\ pc' = "start"
            /\ UNCHANGED << items, text >>
       ELSE /\ pc' = "render"
            /\ items' = ValueOf(adf).content
            /\ text' = <<>>
            /\ UNCHANGED description
    /\ UNCHANGED << adf, calls, callVars,
                    deepVars, scriptVars >>

\* one turn of `for (const item of content)` for the top-level nodes
RenderItem ==
    /\ pc = "render"
    /\ items # <<>>
    /\ text' = text \o ItemText(Head(items))
    /\ items' = Tail(items)
    /\ UNCHANGED << description, pc, adf, calls, callVars,
                    deepVars, scriptVars >>

\* RenderEnd without trim()
RenderEndUntrimmed ==
    /\ pc = "render"
    /\ items = <<>>
    /\ description' = Some(text)
    /\ pc' = "start"
    /\ UNCHANGED << adf, items, text, calls, callVars,
                    deepVars, scriptVars >>

\* return text.trim(): the description of the mapped issue, which the
\* scripts hand to getAcceptanceCriteria
RenderEnd ==
    /\ pc = "render"
    /\ items = <<>>
    /\ description' = Some(Trim(text))
    /\ pc' = "start"
    /\ UNCHANGED << adf, items, text, calls, callVars,
                    deepVars, scriptVars >>

Next ==
    \/ Gate
    \/ ParagraphStep
    \/ ParagraphsEnd
    \/ LineStep
    \/ LinesEnd
    \/ Explicit

Spec == Init /\ [][Next]_vars

\* an issue is mapped from a document, then its criteria are extracted;
\* or the issue was built by the caller and has no description
InitADF ==
    /\ \/ adf \in Documents /\ pc = "map"
       \/ adf = None /\ pc = "start"
    /\ description = None
    /\ acceptanceCriteria = None
    /\ issueKey = K_Proj
    /\ criteria = <<>>
    /\ parsed = <<>>
    /\ index = 1
    /\ paragraphs = <<>>
    /\ lines = <<>>
    /\ madeBy = <<>>
    /\ items = <<>>
    /\ text = <<>>
    /\ calls = <<>>
    /\ DeepIdle
    /\ ScriptIdle

NextADF ==
    \/ MapIssue
    \/ RenderItem
    \/ RenderEnd
    \/ Gate
    \/ ParagraphStep
    \/ ParagraphsEnd
    \/ LineStep
    \/ LinesEnd
    \/ Explicit

SpecADF == InitADF /\ [][NextADF]_vars

(***************************************************************************)
(* Concurrent calls of getAcceptanceCriteria.  The variables of one call   *)
(* hold the call that is running and calls holds the frames of the other   *)
(* calls.  getAcceptanceCriteria has no await, so the event loop runs      *)
(* each call to its end; a switch is admitted at every step all the same,  *)
(* which covers every order in which any scheduler could run the calls.    *)
(***************************************************************************)
\* number of calls in flight
MaxCalls == 2

\* the local variables and parameters of the running call
CurrentFrame ==
    [description |-> description, acceptanceCriteria |-> acceptanceCriteria,
     issueKey |-> issueKey, pc |-> pc, criteria |-> criteria,
     parsed |-> parsed, index |-> index, paragraphs |-> paragraphs,
     lines |-> lines, madeBy |-> madeBy]

\* the frame of a call that has not begun
NewFrame(d, a, k) ==
    [description |-> d, acceptanceCriteria |-> a, issueKey |-> k,
     pc |-> "start", criteria |-> <<>>, parsed |-> <<>>, index |-> 1,
     paragraphs |-> <<>>, lines |-> <<>>, madeBy |-> <<>>]

\* the issues of the concurrent calls
ConcurrentDescriptions ==
    {Some(d) : d \in {D_MarkedBullets, D_TwoGiven, D_FourGwt, D_GwtSentence}}

ConcurrentFrames ==
    {NewFrame(d, Some(<<E_Bullet>>), K_Proj) : d \in ConcurrentDescriptions}

InitConcurrent ==
    /\ calls \in [1..(MaxCalls - 1) -> ConcurrentFrames]
    /\ description \in ConcurrentDescriptions
    /\ acceptanceCriteria = Some(<<E_Bullet>>)
    /\ issueKey = K_Proj
    /\ pc = "start"
    /\ criteria = <<>>
    /\ parsed = <<>>
    /\ index = 1
    /\ paragraphs = <<>>
    /\ lines = <<>>
    /\ madeBy = <<>>
    /\ adf = None
    /\ items = <<>>
    /\ text = <<>>
    /\ DeepIdle
    /\ ScriptIdle

\* Switch with the counter of parseAcceptanceCriteria kept in the service:
\* the call that resumes goes on with the counter of the call that ran
SwitchSharedCounter(i) ==
    /\ i \in DOMAIN calls
    /\ calls' = [calls EXCEPT ![i] = CurrentFrame]
    /\ description' = calls[i].description
    /\ acceptanceCriteria' = calls[i].acceptanceCriteria
    /\ issueKey' = calls[i].issueKey
    /\ pc' = calls[i].pc
    /\ criteria' = calls[i].criteria
    /\ parsed' = calls[i].parsed
    /\ index' = index
    /\ paragraphs' = calls[i].paragraphs
    /\ lines' = calls[i].lines
    /\ madeBy' = calls[i].madeBy
    /\ UNCHANGED << renderVars, deepVars, scriptVars >>

\* the running call is suspended and call i runs: each call has its own
\* criteria array (line 130) and its own index (line 160)
Switch(i) ==
    /\ i \in DOMAIN calls
    /\ calls' = [calls EXCEPT ![i] = CurrentFrame]
    /\ description' = calls[i].description
    /\ acceptanceCriteria' = calls[i].acceptanceCriteria
    /\ issueKey' = calls[i].issueKey
    /\ pc' = calls[i].pc
    /\ criteria' = calls[i].criteria
    /\ parsed' = calls[i].parsed
    /\ index' = calls[i].index
    /\ paragraphs' = calls[i].paragraphs
    /\ lines' = calls[i].lines
    /\ madeBy' = calls[i].madeBy
    /\ UNCHANGED << renderVars, deepVars, scriptVars >>

SwitchCall == \E i \in 1..(MaxCalls - 1) : Switch(i)

NextConcurrent ==
    \/ Gate
    \/ ParagraphStep
    \/ ParagraphsEnd
    \/ LineStep
    \/ LinesEnd
    \/ Explicit
    \/ SwitchCall

SpecConcurrent == InitConcurrent /\ [][NextConcurrent]_vars

(***************************************************************************)
(* The recursion of extractFromContent on deeply nested documents.  The    *)
(* document is a chain: every node is the only child of the node around    *)
(* it and the innermost node holds a text, so that extractFromContent      *)
(* calls itself once for every node of the chain.                          *)
(***************************************************************************)
\* longest chain
MaxChain == 65

InitDeep ==
    /\ levels \in 0..MaxChain
    /\ frames = 0
    /\ pc = "chain"
    /\ description = None
    /\ acceptanceCriteria = None
    /\ issueKey = K_Proj
    /\ criteria = <<>>
    /\ parsed = <<>>
    /\ index = 1
    /\ paragraphs = <<>>
    /\ lines = <<>>
    /\ madeBy = <<>>
    /\ adf = None
    /\ items = <<>>
    /\ text = <<>>
    /\ calls = <<>>
    /\ ScriptIdle

\* text = extractFromContent(adfContent.content)
DeepCall ==
    /\ pc = "chain"
    /\ frames' = 1
    /\ pc' = "descend"
    /\ UNCHANGED << levels, description, callVars, renderVars, calls,
                    scriptVars >>

\* the node has a content: extractFromContent(item.content), whatever the
\* kind of the node; no branch looks at the depth
DeepDescend ==
    /\ pc = "descend"
    /\ levels > 0
    /\ frames' = frames + 1
    /\ levels' = levels - 1
    /\ UNCHANGED << pc, description, callVars, renderVars, calls,
                    scriptVars >>

\* the innermost content holds a text: the loops of the activations end
DeepBottom ==
    /\ pc = "descend"
    /\ levels = 0
    /\ pc' = "ascend"
    /\ UNCHANGED << frames, levels, description, callVars, renderVars,
                    calls, scriptVars >>

\* return result
DeepReturn ==
    /\ pc = "ascend"
    /\ frames > 0
    /\ frames' = frames - 1
    /\ UNCHANGED << pc, levels, description, callVars, renderVars, calls,
                    scriptVars >>

\* return text.trim()
DeepEnd ==
    /\ pc = "ascend"
    /\ frames = 0
    /\ pc' = "rendered"
    /\ UNCHANGED << frames, levels, description, callVars, renderVars,
                    calls, scriptVars >>

NextDeep ==
    \/ DeepCall
    \/ DeepDescend
    \/ DeepBottom
    \/ DeepReturn
    \/ DeepEnd

SpecDeep == InitDeep /\ [][NextDeep]_vars

\* the call is over: the promise is resolved or rejected
Ended == pc \in {"done", "rejected"}

(***************************************************************************)
(* Properties.                                                             *)
(***************************************************************************)
\* the criteria the description contributed and the explicit list's length
ExplicitCount == IF acceptanceCriteria = None THEN 0 ELSE Len(ValueOf(acceptanceCriteria))
TextDerived == SubSeq(criteria, 1, Len(criteria) - ExplicitCount)
HasDescription == description # None /\ ValueOf(description) # <<>>

\* C1: for every description and every explicit list the call completes
\* and returns a sequence of criteria; no input makes it throw or reject.
C1_NeverRejects == pc # "rejected"

\* 'a'
G_a ==
    <<"a">>

\* 'b'
G_b ==
    <<"b">>

\* 'c'
G_c ==
    <<"c">>

\* 'a user'
G_AUser ==
    <<"a"," ","u","s","e","r">>

\* 'they click submit'
G_TheyClickSubmit ==
    <<"t","h","e","y"," ","c","l","i","c","k"," ","s","u","b","m","i","t">>

\* 'an error shows'
G_AnErrorShows ==
    <<"a","n"," ","e","r","r","o","r"," ","s","h","o","w","s">>

\* ' WHEN '
L_SpWhen ==
    <<" ","W","H","E","N"," ">>

\* ' THEN '
L_SpThen ==
    <<" ","T","H","E","N"," ">>

GwtTriples == { <<G_a, G_b, G_c>>, <<G_AUser, G_TheyClickSubmit, G_AnErrorShows>> }

\* the paragraph 'GIVEN g1 WHEN g2 THEN g3'
GwtSentence(g) == L_GIVEN \o g[1] \o L_SpWhen \o g[2] \o L_SpThen \o g[3]

\* the criterion the k-th such paragraph is to give
GwtExpected(g, k) ==
    [ id        |-> L_AC \o Decimal(k),
      criterion |-> L_GIVEN \o g[1] \o L_WHEN \o g[2] \o L_THEN \o g[3],
      status    |-> "pending",
      testCases |-> << L_Test \o g[2], L_Expected \o g[3] >> ]

\* paragraphs joined by blank lines
RECURSIVE JoinParagraphs(_)
JoinParagraphs(ps) ==
    IF Len(ps) = 1 THEN ps[1]
    ELSE ps[1] \o <<NL, NL>> \o JoinParagraphs(Tail(ps))

\* C2: every paragraph that is a complete 'GIVEN g1 WHEN g2 THEN g3'
\* sentence yields exactly one criterion with the text 'GIVEN g1\nWHEN
\* g2\nTHEN g3' and the testCases 'Test: g2' and 'Expected: g3'.
C2_GwtParagraphGivesCriterion ==
    \A gs \in SeqsUpTo(GwtTriples, 2) \ {<<>>} :
        \A trail \in {<<>>, <<NL>>, <<NL, NL>>} :
            ( /\ Ended
              /\ acceptanceCriteria = None
              /\ description =
                    Some(JoinParagraphs([k \in 1..Len(gs) |-> GwtSentence(gs[k])]) \o trail) )
            => /\ pc = "done"
               /\ criteria = [k \in 1..Len(gs) |-> GwtExpected(gs[k], k)]

\* the line loop of parseAcceptanceCriteria as a function of the lines
RECURSIVE HeuristicPass(_, _)
HeuristicPass(ls, idx) ==
    IF ls = <<>> THEN <<>>
    ELSE LET l == Trim(Head(ls))
         IN  IF IsAcLine(l)
             THEN <<HeuristicCriterion(l, idx)>> \o HeuristicPass(Tail(ls), idx + 1)
             ELSE HeuristicPass(Tail(ls), idx)

\* a paragraph of the description starts with GIVEN
HasGivenParagraph ==
    \E k \in 1..Len(Paragraphs(ValueOf(description))) :
        StartsWithGiven(Paragraphs(ValueOf(description))[k])

GivenParagraphs ==
    SelectSeq(Paragraphs(ValueOf(description)), StartsWithGiven)

\* C4: with GWT-matching paragraphs and a non-empty explicit list, the
\* returned sequence has as many elements as the GWT pass derived plus the
\* length of the explicit list, and each explicit id starts with the key.
C4_ExplicitListAdditive ==
    ( /\ Ended
      /\ HasDescription
      /\ acceptanceCriteria # None
      /\ ValueOf(acceptanceCriteria) # <<>>
      /\ \E k \in 1..Len(GivenParagraphs) : GwtMatch(GivenParagraphs[k]) # <<>> )
    => /\ pc = "done"
       /\ Len(criteria) = Len(GivenParagraphs) + Len(ValueOf(acceptanceCriteria))
       /\ \A k \in 1..Len(ValueOf(acceptanceCriteria)) :
             LET id == criteria[Len(GivenParagraphs) + k].id
             IN  /\ Len(id) >= Len(issueKey)
                 /\ SubSeq(id, 1, Len(issueKey)) = issueKey

\* C5: a paragraph that starts with GIVEN and does not match the
\* three-part pattern adds exactly one criterion, whose text is the trimmed
\* paragraph, with status pending and no testCases, and raises no error.
C5_PartialParagraphVerbatim ==
    [][ ( /\ pc = "paragraphs"
          /\ paragraphs # <<>>
          /\ StartsWithGiven(Head(paragraphs))
          /\ GwtMatch(Head(paragraphs)) = <<>> )
        => /\ pc' = "paragraphs"
           /\ Len(parsed') = Len(parsed) + 1
           /\ SubSeq(parsed', 1, Len(parsed)) = parsed
           /\ parsed'[Len(parsed')].criterion = Trim(Head(paragraphs))
           /\ parsed'[Len(parsed')].status = "pending"
           /\ "testCases" \notin DOMAIN parsed'[Len(parsed')] ]_vars

\* a criterion of a GIVEN paragraph that is not a complete GWT was returned
C5_Witness ==
    /\ pc = "done"
    /\ \E i \in 1..Len(criteria) :
          /\ madeBy[i] = "gwt"
          /\ "testCases" \notin DOMAIN criteria[i]
          /\ criteria[i].criterion = Trim(P_Given)

\* C6: the ids returned by one call are pairwise distinct.
C6_IdsDistinct ==
    pc = "done" =>
        \A i \in 1..Len(criteria) : \A j \in 1..Len(criteria) :
            i # j => criteria[i].id # criteria[j].id

\* the call returned criteria of the description and of the explicit list
\* for the empty key
C6_Witness ==
    /\ pc = "done"
    /\ issueKey = K_Empty
    /\ ExplicitCount >= 2
    /\ Len(TextDerived) >= 2

\* C7: every returned criterion has a text that is not empty after trimming.
C7_TextNotBlank ==
    pc = "done" =>
        \A i \in 1..Len(criteria) : Trim(criteria[i].criterion) # <<>>

\* C8: every returned criterion text is trimmed and does not begin with a
\* bullet marker or a numbered-list marker.
C8_TrimmedWithoutMarker ==
    pc = "done" =>
        \A i \in 1..Len(criteria) :
            /\ criteria[i].criterion = Trim(criteria[i].criterion)
            /\ MarkerLen(criteria[i].criterion) = 0

\* C9: the explicit list is mapped in order, element i (from 0) to the id
\* '<issueKey>-AC-<i+1>', the element as text, status pending and no
\* testCases; an empty or absent list adds nothing; no error is raised.
C9_ExplicitMapping ==
    [][ pc = "explicit"
        => /\ pc' = "done"
           /\ criteria' = criteria \o
                 [ k \in 1..ExplicitCount |->
                     [ id        |-> issueKey \o L_DashAC \o Decimal(k),
                       criterion |-> ValueOf(acceptanceCriteria)[k],
                       status    |-> "pending" ] ] ]_vars

\* a list of two different elements was mapped
C9_Witness ==
    /\ pc = "done"
    /\ ExplicitCount = 2
    /\ ValueOf(acceptanceCriteria)[1] # ValueOf(acceptanceCriteria)[2]
    /\ criteria[Len(criteria)].criterion = ValueOf(acceptanceCriteria)[2]

\* C10: every criterion has status pending, and only criteria of the GWT
\* paragraph loop carry testCases.
C10_PendingAndTestCases ==
    pc = "done" =>
        \A i \in 1..Len(criteria) :
            /\ criteria[i].status = "pending"
            /\ "testCases" \in DOMAIN criteria[i] => madeBy[i] = "gwt"

\* criteria of all three origins, with and without testCases, were returned
C10_Witness ==
    /\ pc = "done"
    /\ \E i \in 1..Len(criteria) : "testCases" \in DOMAIN criteria[i]
    /\ \E i \in 1..Len(criteria) : madeBy[i] = "explicit"

\* the line that the current turn of the line loop looks at
CurrentLine == Trim(Head(lines))

\* C11 as stated: a line becomes a criterion exactly if its trimmed form
\* begins with '*', '-' or '<digits>.' or contains a modal word, and is
\* longer than 10 characters.
C11_LineAcceptedIffMarkedOrModal ==
    [][ (pc = "lines" /\ lines # <<>>)
        => ( parsed' # parsed
             <=> /\ MarkerLen(CurrentLine) > 0 \/ HasModalWord(CurrentLine)
                 /\ Len(CurrentLine) > 10 ) ]_vars

\* C11 amended: a line becomes a criterion exactly if its trimmed form
\* begins with a marker that is followed by at least one more character,
\* or contains a modal word, and is longer than 10 characters; it then
\* adds exactly one criterion.
C11_LineAcceptedIffMarkedTextOrModal ==
    [][ (pc = "lines" /\ lines # <<>>)
        => LET accepted ==
                   /\ \/ /\ MarkerLen(CurrentLine) > 0
                         /\ Len(CurrentLine) > MarkerLen(CurrentLine)
                      \/ HasModalWord(CurrentLine)
                   /\ Len(CurrentLine) > 10
           IN  /\ accepted => Len(parsed') = Len(parsed) + 1
               /\ ~accepted => parsed' = parsed ]_vars

\* the line pass went over a marked line, a bullet of 4 and one of 10
\* characters, a numbered line and a bare number marker of 12 characters,
\* and accepted two of them
C11_Witness ==
    /\ pc = "done"
    /\ description = Some(D_Markers)
    /\ Len(TextDerived) = 2

\* C17 as stated: when the description contains a marker token the
\* heuristic pass does not run, so no returned criterion comes from it.
C17_NoHeuristicBehindMarker ==
    (HasDescription /\ AcMatches(ValueOf(description)))
    => /\ pc # "lines"
       /\ \A i \in 1..Len(madeBy) : madeBy[i] # "heuristic"

\* C17 amended: the heuristic pass runs only when the description
\* contains a marker token and the paragraph loop gave no criterion (no
\* paragraph starts with GIVEN); when a paragraph starts with GIVEN, the
\* criteria of the description are those of the paragraph loop alone.
C17_HeuristicOnlyAfterEmptyGwtPass ==
    /\ (pc = "lines" \/ \E i \in 1..Len(madeBy) : madeBy[i] = "heuristic")
         => /\ HasDescription
            /\ AcMatches(ValueOf(description))
            /\ ~HasGivenParagraph
            /\ \A i \in 1..Len(parsed) : madeBy[i] = "heuristic"
    /\ (pc = "done" /\ HasDescription /\ AcMatches(ValueOf(description))
          /\ HasGivenParagraph)
         => /\ Len(TextDerived) = Len(GivenParagraphs)
            /\ \A i \in 1..Len(TextDerived) : madeBy[i] = "gwt"

\* a description with a marker token and no GIVEN paragraph returned
\* criteria of the heuristic pass
C17_Witness ==
    /\ pc = "done"
    /\ HasDescription
    /\ ContainsCI(ValueOf(description), W_ac)
    /\ Len(TextDerived) >= 1
    /\ \A i \in 1..Len(TextDerived) : madeBy[i] = "heuristic"

\* C18: the k-th criterion derived from the description has the id 'AC-k'.
C18_TextIdsContiguous ==
    /\ \A k \in 1..Len(parsed) : parsed[k].id = L_AC \o Decimal(k)
    /\ pc = "done" =>
          \A k \in 1..Len(TextDerived) : TextDerived[k].id = L_AC \o Decimal(k)

\* two criteria of the paragraph loop were returned before explicit ones
C18_Witness ==
    /\ pc = "done"
    /\ Len(TextDerived) = 2
    /\ madeBy[1] = "gwt"
    /\ madeBy[2] = "gwt"
    /\ ExplicitCount >= 1

(***************************************************************************)
(* The claims about extractTextFromADF.                                    *)
(***************************************************************************)
\* extractTextFromADF has returned
Rendered == pc \notin {"map", "render"}

\* the document whose content is c
Doc(c) == Some(With("doc", c))

R_Heading == <<"#", "#", " ", "T", "i", "t", "l", "e">>

R_HeadingBreaks == R_Heading \o <<NL, NL>>

\* C12 (as stated): the document whose content is one heading of level 2
\* with the text child Title is rendered as '## Title\n\n'.
C12_HeadingRendersWithBreaks ==
    (Rendered /\ adf = Doc(C_Heading)) => description = Some(R_HeadingBreaks)

\* C12 (amended): for that document the heading branch adds '## Title\n\n'
\* to the result, and extractTextFromADF returns the result trimmed, that
\* is '## Title'.
C12_HeadingRendersTrimmed ==
    (Rendered /\ adf = Doc(C_Heading))
        => /\ text = R_HeadingBreaks
           /\ description = Some(R_Heading)

C12_Witness == pc = "done" /\ adf = Doc(C_Heading)

\* the top-level nodes of the document, none when extractTextFromADF
\* returns at its guard
TopLevel ==
    IF adf # None /\ HasContent(ValueOf(adf)) THEN ValueOf(adf).content
    ELSE <<>>

\* the document consists of two sibling paragraphs
TwoParagraphs ==
    /\ Len(TopLevel) = 2
    /\ \A i \in 1..2 : TopLevel[i].type = "paragraph"

\* what the children of a node render to
Body(item) ==
    IF HasContent(item) THEN ExtractFromContent(item.content) ELSE <<>>

\* the children of the node render to one line that is not blank
OneLineBody(item) ==
    /\ Trim(Body(item)) # <<>>
    /\ \A i \in 1..Len(Body(item)) : ~IsLineTerminator(Body(item)[i])

\* the number of blank lines inside a text
BlankLines(t) ==
    LET ls == SplitLines(t)
    IN  Cardinality({i \in 2..(Len(ls) - 1) : Trim(ls[i]) = <<>>})

\* C13 (as stated): the text returned for a document of two sibling
\* paragraphs, whatever their children, has exactly one blank line
\* between the two paragraphs.
C13_OneBlankLineBetweenParagraphs ==
    (Rendered /\ TwoParagraphs) => BlankLines(ValueOf(description)) = 1

\* C13 (amended): when the children of both paragraphs render to one
\* non-blank line each, the result is the first line, a blank line, the
\* second line and a blank line, and the returned text has exactly one
\* blank line.
C13_OneBlankLineBetweenTextParagraphs ==
    (Rendered /\ TwoParagraphs /\ \A i \in 1..2 : OneLineBody(TopLevel[i]))
        => /\ text = Body(TopLevel[1]) \o <<NL, NL>>
                        \o Body(TopLevel[2]) \o <<NL, NL>>
           /\ BlankLines(ValueOf(description)) = 1

C13_Witness ==
    /\ pc = "done"
    /\ TwoParagraphs
    /\ \A i \in 1..2 : OneLineBody(TopLevel[i])
    /\ Len(TopLevel[1].content) = 2

\* a container node whose children are absent or an empty sequence
Childless(item) ==
    /\ item.type # "text"
    /\ HasContent(item) => item.content = <<>>

\* C14: a container node whose children are absent or empty adds the
\* empty string to the rendered text: no separator, fence, '#' or '- '.
C14_ChildlessContainerAddsNothing ==
    [][(RenderItem /\ Childless(Head(items))) => text' = text]_vars

\* C15: with no description (absent, or the empty text that a null or
\* empty document is rendered to) and no explicit list,
\* getAcceptanceCriteria returns the empty sequence and does not reject.
C15_EmptyInputGivesNoCriteria ==
    (Ended /\ ~HasDescription /\ acceptanceCriteria = None)
        => (pc = "done" /\ criteria = <<>>)

C15_Witness ==
    /\ pc = "done"
    /\ adf = None
    /\ description = Some(<<>>)
    /\ acceptanceCriteria = None
    /\ criteria = <<>>

\* the children of a list that are of the type listItem
RECURSIVE ListItems(_)
ListItems(content) ==
    IF content = <<>> THEN <<>>
    ELSE (IF Head(content).type = "listItem" THEN <<Head(content)>> ELSE <<>>)
            \o ListItems(Tail(content))

\* the list items of a list that are rendered: children of the type
\* listItem that have a content
RECURSIVE RenderedListItems(_)
RenderedListItems(content) ==
    IF content = <<>> THEN <<>>
    ELSE (IF Head(content).type = "listItem" /\ HasContent(Head(content))
          THEN <<Head(content)>> ELSE <<>>)
            \o RenderedListItems(Tail(content))

\* '- ', the rendered children and a line break for each item, in order
RECURSIVE ItemLines(_)
ItemLines(listItems) ==
    IF listItems = <<>> THEN <<>>
    ELSE <<"-", " ">> \o Body(Head(listItems)) \o <<NL>>
            \o ItemLines(Tail(listItems))

IsList(item) == item.type \in {"bulletList", "orderedList"}

\* C19 (as stated): a bulletList or orderedList adds, for each listItem
\* child in order, '- ', the rendered children of the item and a line
\* break, and one more line break after the list; children that are no
\* listItem add nothing.
C19_EveryListItemRendered ==
    [][(RenderItem /\ IsList(Head(items)) /\ HasContent(Head(items)))
         => text' = text \o ItemLines(ListItems(Head(items).content))
                         \o <<NL>>]_vars

\* C19 (amended): the same for each listItem child that has a content,
\* also an empty one; a listItem child without content adds nothing, like
\* the children that are no listItem.
C19_ListRendering ==
    [][(RenderItem /\ IsList(Head(items)) /\ HasContent(Head(items)))
         => text' = text \o ItemLines(RenderedListItems(Head(items).content))
                         \o <<NL>>]_vars

\* the ordered list of C_Lists, with two list items around a text node
\* and a list item without content, has been rendered after other nodes
C19_Witness ==
    /\ pc = "render"
    /\ adf = Doc(C_Lists)
    /\ items = <<>>
    /\ Len(text) > Len(ItemLines(RenderedListItems(C_Lists[3].content))) + 1
    /\ Len(RenderedListItems(C_Lists[3].content)) = 2
    /\ Len(ListItems(C_Lists[3].content)) = 3

\* a node of a kind that extractTextFromADF has no branch for
UnknownKind(item) ==
    item.type \notin {"text", "paragraph", "bulletList", "orderedList",
                      "codeBlock", "heading"}

\* a heading with children and without a level
HeadingWithoutLevel(item) ==
    /\ item.type = "heading"
    /\ HasContent(item)
    /\ ~("attrs" \in DOMAIN item /\ "level" \in DOMAIN item.attrs)

\* what each child of a node renders to
ChildTexts(item) ==
    IF HasContent(item)
    THEN [i \in 1..Len(item.content) |-> ItemText(item.content[i])]
    ELSE <<>>

\* C20: a node of an unrecognized kind adds the concatenation of its
\* rendered children, nothing when it has none, and never makes the call
\* fail; a heading without level is rendered with exactly one '#'.
C20_UnknownKindAndDefaultLevel ==
    [][/\ (RenderItem /\ UnknownKind(Head(items)))
            => (text' = text \o Concat(ChildTexts(Head(items)))
                /\ pc' # "rejected")
       /\ (RenderItem /\ HeadingWithoutLevel(Head(items)))
            => text' = text \o <<"#", " ">>
                            \o Concat(ChildTexts(Head(items)))
                            \o <<NL, NL>>]_vars

\* the panel, the rule and the two headings without level of C_Unknown
\* have been rendered
C20_Witness ==
    /\ pc = "render"
    /\ adf = Doc(C_Unknown)
    /\ items = <<>>
    /\ text = T_Title \o T_Marker
                \o <<"#", " ">> \o T_Title \o <<NL, NL>>
                \o <<"#", " ">> \o T_Can \o <<NL, NL>>

(***************************************************************************)
(* The claim about concurrent calls.                                       *)
(***************************************************************************)
\* the first loop of parseAcceptanceCriteria run from paragraph to
\* paragraph without interruption: whether it returns, and its criteria
RECURSIVE ParagraphPass(_, _, _)
ParagraphPass(ps, idx, acc) ==
    IF ps = <<>> THEN [ok |-> TRUE, out |-> acc]
    ELSE LET p == Head(ps)
             m == GwtMatch(p)
         IN  IF ~StartsWithGiven(p) THEN ParagraphPass(Tail(ps), idx, acc)
             ELSE IF m = <<>>
             THEN ParagraphPass(Tail(ps), idx + 1,
                                Append(acc, PartialCriterion(p, idx)))
             ELSE IF GwtThrows(m) THEN [ok |-> FALSE, out |-> <<>>]
             ELSE ParagraphPass(Tail(ps), idx + 1,
                                Append(acc, GwtCriterion(m, idx)))

\* the second loop run without interruption
RECURSIVE LinePass(_, _, _)
LinePass(ls, idx, acc) ==
    IF ls = <<>> THEN acc
    ELSE IF IsAcLine(Trim(Head(ls)))
    THEN LinePass(Tail(ls), idx + 1,
                  Append(acc, HeuristicCriterion(Trim(Head(ls)), idx)))
    ELSE LinePass(Tail(ls), idx, acc)

\* parseAcceptanceCriteria(t) run alone
ParseAlone(t) ==
    LET first == ParagraphPass(Paragraphs(t), 1, <<>>)
    IN  IF first.ok /\ first.out = <<>>
        THEN [ok |-> TRUE, out |-> LinePass(SplitLines(t), 1, <<>>)]
        ELSE first

\* getAcceptanceCriteria run alone on an issue
ResultAlone(d, a, k) ==
    LET fromText == IF d # None /\ ValueOf(d) # <<>> /\ AcMatches(ValueOf(d))
                    THEN ParseAlone(ValueOf(d))
                    ELSE [ok |-> TRUE, out |-> <<>>]
    IN  IF fromText.ok
        THEN [ok |-> TRUE,
              out |-> fromText.out \o (IF a # None
                                       THEN ExplicitCriteria(k, ValueOf(a))
                                       ELSE <<>>)]
        ELSE fromText

\* a call that is over has the outcome of the same call run alone
AsAlone(f) ==
    LET alone == ResultAlone(f.description, f.acceptanceCriteria, f.issueKey)
    IN  /\ f.pc = "done" => (alone.ok /\ f.criteria = alone.out)
        /\ f.pc = "rejected" => ~alone.ok

\* C16: whatever the order in which the steps of concurrent calls run,
\* each call returns the sequence, with the same ids, that it returns
\* when run alone: the calls share no counter and no other state.
C16_CallsIndependent ==
    /\ AsAlone(CurrentFrame)
    /\ \A i \in DOMAIN calls : AsAlone(calls[i])

\* two calls that each made two criteria from the text are over, and one
\* of them was suspended after its first criterion
C16_Witness ==
    /\ pc = "done"
    /\ Len(TextDerived) = 2
    /\ \E i \in DOMAIN calls :
          /\ calls[i].pc = "done"
          /\ Len(calls[i].criteria) = 3

(***************************************************************************)
(* The claim about the depth of the recursion.                             *)
(***************************************************************************)
\* C21: extractTextFromADF ends for every document, and its recursion is
\* never deeper than 64 activations, however deep the document is nested.
C21_RecursionDepthCapped == frames <= 64

(***************************************************************************)
(* The claim about the marker gate.                                        *)
(***************************************************************************)
\* the description holds the letters a and c next to each other, in any
\* case and anywhere, or Given, When and Then on one line
HasAcLetters ==
    /\ HasDescription
    /\ \/ ContainsCI(ValueOf(description), <<"a", "c">>)
       \/ GivenWhenThenOnLine(ValueOf(description))

\* C23: the gate is a substring test: a description that holds 'ac' in
\* any case, also inside a longer word, is handed to
\* parseAcceptanceCriteria, and a description without it and without
\* Given...When...Then on one line gives no criterion from the text.
C23_GateIsSubstringTest ==
    [][/\ Gate => (pc' = "paragraphs" <=> HasAcLetters)
       /\ (pc' = "done" /\ ~HasAcLetters) => TextDerived' = <<>>]_vars

\* 'ac' occurs only inside the word account, and the line is a criterion
C23_Witness ==
    /\ pc = "done"
    /\ description = Some(D_Account)
    /\ Len(TextDerived) = 1


(***************************************************************************)
(* The scripts: JiraToGitHubIntegration.run ("integration"),               *)
(* JiraToGitHubIssueScript.run ("legacy") and JiraTicketReader.run         *)
(* ("reader"), and a direct call of JiraService.updateIssue ("update").    *)
(* Every request to Jira or GitHub succeeds or fails as the service        *)
(* decides.  out records each request that was sent, with /failed when it  *)
(* was answered by an error, and each line that tells the user the         *)
(* outcome of a step.                                                      *)
(***************************************************************************)
\* repository identifiers: 'o/r', 'o', '/r', 'o/', 'o/r/x'
RepoIdentifiers ==
    { <<"o", "/", "r">>, <<"o">>, <<"/", "r">>, <<"o", "/">>,
      <<"o", "/", "r", "/", "x">> }

\* t.split(sep)
RECURSIVE SplitOn(_, _)
SplitOn(t, sep) ==
    IF \A k \in 1..Len(t) : t[k] # sep THEN <<t>>
    ELSE LET p == SetMin({k \in 1..Len(t) : t[k] = sep})
         IN  <<SubSeq(t, 1, p - 1)>> \o SplitOn(SubSeq(t, p + 1, Len(t)), sep)

\* const [repoOwner, repoName] = repoIdentifier.split('/');
\* not (!repoOwner || !repoName)
RepoValid(r) ==
    LET parts == SplitOn(r, "/")
    IN  Len(parts) >= 2 /\ parts[1] # <<>> /\ parts[2] # <<>>

\* fields.description of the tickets: null, a heading, a marked list and
\* a paragraph with one GIVEN WHEN THEN sentence
ScriptDocuments ==
    { None, Doc(C_Heading), Doc(C_Lists),
      Doc(<<With("paragraph", <<TextNode(T_Gwt)>>)>>) }

\* the parts of an update: status, comment, customFields
Updates == [status : BOOLEAN, comment : BOOLEAN, customFields : BOOLEAN]

NoUpdate == [status |-> FALSE, comment |-> FALSE, customFields |-> FALSE]

\* the values of a run before its first statement
NewJob(r, u) ==
    [repoIdentifier |-> r,      \* argument of run
     found |-> <<>>,            \* acceptanceCriteria of run
     branchName |-> <<>>,       \* branchName of the legacy run
     update |-> u,              \* argument of updateIssue
     ret |-> "returned",        \* the statement that awaits updateIssue
     thrown |-> FALSE,          \* updateIssue has thrown
     copilotAgentId |-> FALSE,  \* the id is not null
     issueId |-> FALSE]         \* the id is not null

InitScripts ==
    /\ \/ /\ script \in {"integration", "legacy", "reader"}
          /\ at = "begin"
          /\ \E r \in RepoIdentifiers : job = NewJob(r, NoUpdate)
       \/ /\ script = "update"
          /\ at = "status"
          /\ \E u \in Updates : job = NewJob(<<>>, u)
    /\ out = <<>>
    /\ pc = "idle"
    /\ description = None
    /\ acceptanceCriteria = None
    /\ issueKey = K_Empty
    /\ criteria = <<>>
    /\ parsed = <<>>
    /\ index = 1
    /\ paragraphs = <<>>
    /\ lines = <<>>
    /\ madeBy = <<>>
    /\ adf = None
    /\ items = <<>>
    /\ text = <<>>
    /\ calls = <<>>
    /\ DeepIdle

\* what the statements of a script outside the extraction leave alone
callIdle == << description, pc, callVars, renderVars, calls, deepVars >>

\* requests are sent and lines are printed
Log(events) == out' = out \o events

\* the catch block of run: the error is printed, process.exit(1)
Abort(events) ==
    /\ at' = "exit1"
    /\ out' = out \o events \o <<"print:failed", "exit:1">>

\* the first statements of run in the integration and the legacy script:
\* the repository identifier is split and checked
Begin ==
    /\ script \in {"integration", "legacy"}
    /\ at = "begin"
    /\ IF RepoValid(job.repoIdentifier)
       THEN at' = "getIssue" /\ UNCHANGED out
       ELSE Abort(<<>>)
    /\ UNCHANGED << script, job, callIdle >>

\* Step 1 of the integration and the legacy script:
\* await this.jiraService.getIssue(...); getIssue rethrows a failure of
\* the request and run catches it
GetIssue ==
    /\ script \in {"integration", "legacy"}
    /\ at = "getIssue"
    /\ \/ at' = "extract" /\ Log(<<"jira:get">>)
       \/ Abort(<<"jira:get/failed">>)
    /\ UNCHANGED << script, job, callIdle >>

\* Fetch with an issue that carries the criteria of a custom field
FetchWithExplicitList ==
    /\ \/ script \in {"integration", "legacy"} /\ at = "extract"
       \/ script = "reader" /\ at = "begin"
    /\ \/ /\ adf' \in ScriptDocuments
          /\ acceptanceCriteria' = Some(<<E_Bullet>>)
          /\ issueKey' = K_Proj
          /\ pc' = "map"
          /\ at' = "extracting"
          /\ Log(<<"jira:get">>)
          /\ UNCHANGED job
       \/ /\ script = "integration"
          /\ at' = "report"
          /\ job' = [job EXCEPT !.found = <<>>]
          /\ Log(<<"jira:get/failed", "print:extraction-failed">>)
          /\ UNCHANGED << adf, acceptanceCriteria, issueKey, pc >>
       \/ /\ script # "integration"
          /\ Abort(<<"jira:get/failed">>)
          /\ UNCHANGED << adf, acceptanceCriteria, issueKey, pc, job >>
    /\ UNCHANGED << script, description, criteria, parsed, index, paragraphs,
                    lines, madeBy, items, text, calls, deepVars >>

\* the ticket of the extraction is fetched: getIssue returns what
\* mapJiraIssue builds, an issue without acceptanceCriteria, and
\* getAcceptanceCriteria(ticket, key) is called with it.  The integration
\* script catches a failure and goes on with no criteria; in the other
\* scripts the failure reaches the catch block of run.
Fetch ==
    /\ \/ script \in {"integration", "legacy"} /\ at = "extract"
       \/ script = "reader" /\ at = "begin"
    /\ \/ /\ adf' \in ScriptDocuments
          /\ acceptanceCriteria' = None
          /\ issueKey' = K_Proj
          /\ pc' = "map"
          /\ at' = "extracting"
          /\ Log(<<"jira:get">>)
          /\ UNCHANGED job
       \/ /\ script = "integration"
          /\ at' = "report"
          /\ job' = [job EXCEPT !.found = <<>>]
          /\ Log(<<"jira:get/failed", "print:extraction-failed">>)
          /\ UNCHANGED << adf, acceptanceCriteria, issueKey, pc >>
       \/ /\ script # "integration"
          /\ Abort(<<"jira:get/failed">>)
          /\ UNCHANGED << adf, acceptanceCriteria, issueKey, pc, job >>
    /\ UNCHANGED << script, description, criteria, parsed, index, paragraphs,
                    lines, madeBy, items, text, calls, deepVars >>

\* Extracted with the catch of the integration script in every script
ExtractedAlwaysCaught ==
    /\ at = "extracting"
    /\ pc \in {"done", "rejected"}
    /\ IF pc = "done"
       THEN /\ job' = [job EXCEPT !.found = criteria]
            /\ at' = "report"
            /\ UNCHANGED out
       ELSE /\ job' = [job EXCEPT !.found = <<>>]
            /\ at' = "report"
            /\ Log(<<"print:extraction-failed">>)
    /\ UNCHANGED << script, callIdle >>

\* the promise of getAcceptanceCriteria is settled: the criteria are
\* returned to run, or the rejection is caught by
\* getJiraAcceptanceCriteria (integration) or by run (legacy, reader)
Extracted ==
    /\ at = "extracting"
    /\ pc \in {"done", "rejected"}
    /\ IF pc = "done"
       THEN /\ job' = [job EXCEPT !.found = criteria]
            /\ at' = "report"
            /\ UNCHANGED out
       ELSE IF script = "integration"
       THEN /\ job' = [job EXCEPT !.found = <<>>]
            /\ at' = "report"
            /\ Log(<<"print:extraction-failed">>)
       ELSE /\ Abort(<<>>)
            /\ UNCHANGED job
    /\ UNCHANGED << script, callIdle >>

\* Report that stays silent in the reader
ReportSilentReader ==
    /\ at = "report"
    /\ IF Len(job.found) = 0
       THEN IF script = "reader" THEN UNCHANGED out
            ELSE Log(<<"print:no-criteria">>)
       ELSE Log(<<"print:criteria">>)
    /\ at' = CASE script = "integration" -> "createIssue"
               [] script = "legacy" -> "branch"
               [] OTHER -> "repo"
    /\ UNCHANGED << script, job, callIdle >>

\* if (acceptanceCriteria.length === 0) the line that no criteria were
\* found is printed, else the criteria are listed
Report ==
    /\ at = "report"
    /\ IF Len(job.found) = 0
       THEN Log(<<"print:no-criteria">>)
       ELSE Log(<<"print:criteria">>)
    /\ at' = CASE script = "integration" -> "createIssue"
               [] script = "legacy" -> "branch"
               [] OTHER -> "repo"
    /\ UNCHANGED << script, job, callIdle >>

\* Step 6 of the reader: the repository identifier is split and checked
ReaderRepo ==
    /\ at = "repo"
    /\ IF RepoValid(job.repoIdentifier)
       THEN at' = "end" /\ UNCHANGED out
       ELSE Abort(<<>>)
    /\ UNCHANGED << script, job, callIdle >>

\* `feature/${ticketKey}-${shortDesc}`, generateFeatureBranchName
FeatureBranchName == Some(<<"f", "e", "a", "t", "u", "r", "e", "/">> \o K_Proj)

\* CreateFeatureBranch that rethrows every failure
CreateFeatureBranchRethrowsAll ==
    /\ script = "legacy"
    /\ at = "branch"
    /\ \/ /\ at' = "createIssue"
          /\ job' = [job EXCEPT !.branchName = FeatureBranchName]
          /\ Log(<<"gh:createBranch">>)
       \/ /\ Abort(<<"gh:createBranch/already-exists">>)
          /\ UNCHANGED job
       \/ /\ Abort(<<"gh:createBranch/failed">>)
          /\ UNCHANGED job
    /\ UNCHANGED << script, callIdle >>

\* Step 4 of the legacy script, createFeatureBranch: the branch is
\* created; a failure whose message includes 'already exists' returns the
\* generated name, any other failure is rethrown to run
CreateFeatureBranch ==
    /\ script = "legacy"
    /\ at = "branch"
    /\ \/ /\ at' = "createIssue"
          /\ job' = [job EXCEPT !.branchName = FeatureBranchName]
          /\ Log(<<"gh:createBranch">>)
       \/ /\ at' = "createIssue"
          /\ job' = [job EXCEPT !.branchName = FeatureBranchName]
          /\ Log(<<"gh:createBranch/already-exists", "print:branch-exists">>)
       \/ /\ Abort(<<"gh:createBranch/failed">>)
          /\ UNCHANGED job
    /\ UNCHANGED << script, callIdle >>

\* CreateGitHubIssue that goes on after a failure
CreateGitHubIssueGoesOn ==
    /\ script \in {"integration", "legacy"}
    /\ at = "createIssue"
    /\ \/ Log(<<"gh:createIssue", "print:issue-created">>)
       \/ Log(<<"gh:createIssue/failed">>)
    /\ at' = "move"
    /\ UNCHANGED << script, job, callIdle >>

\* createGitHubIssue: the issue is created and the line is printed, or the
\* failure is rethrown to run
CreateGitHubIssue ==
    /\ script \in {"integration", "legacy"}
    /\ at = "createIssue"
    /\ \/ at' = "move" /\ Log(<<"gh:createIssue", "print:issue-created">>)
       \/ Abort(<<"gh:createIssue/failed">>)
    /\ UNCHANGED << script, job, callIdle >>

\* moveToInProgress calls updateIssue with a status and a comment
MoveToInProgress ==
    /\ at = "move"
    /\ at' = "status"
    /\ job' = [job EXCEPT !.update = [status |-> TRUE, comment |-> TRUE,
                                      customFields |-> FALSE],
                          !.ret = "moved", !.thrown = FALSE]
    /\ Log(<<"print:moving">>)
    /\ UNCHANGED << script, callIdle >>

\* updateIssue throws to its caller
Throw ==
    /\ at' = job.ret
    /\ job' = [job EXCEPT !.thrown = TRUE]

\* UpdateStatus that goes on to the comment after a failure
UpdateStatusGoesOn ==
    /\ at = "status"
    /\ IF job.update.status
       THEN \/ Log(<<"jira:transitions/failed">>)
            \/ Log(<<"jira:transitions">>)
            \/ Log(<<"jira:transitions", "jira:transition/failed">>)
            \/ Log(<<"jira:transitions", "jira:transition">>)
       ELSE UNCHANGED out
    /\ at' = "comment"
    /\ UNCHANGED << script, job, callIdle >>

\* if (update.status) await this.transitionIssue(...): the transitions are
\* fetched; when one leads to the status it is posted, when none does
\* nothing is posted
UpdateStatus ==
    /\ at = "status"
    /\ IF job.update.status
       THEN \/ Log(<<"jira:transitions/failed">>) /\ Throw
            \/ /\ Log(<<"jira:transitions">>)
               /\ at' = "comment"
               /\ UNCHANGED job
            \/ Log(<<"jira:transitions", "jira:transition/failed">>) /\ Throw
            \/ /\ Log(<<"jira:transitions", "jira:transition">>)
               /\ at' = "comment"
               /\ UNCHANGED job
       ELSE at' = "comment" /\ UNCHANGED << out, job >>
    /\ UNCHANGED << script, callIdle >>

\* if (update.comment) await this.addComment(...)
UpdateComment ==
    /\ at = "comment"
    /\ IF job.update.comment
       THEN \/ Log(<<"jira:comment">>) /\ at' = "customFields" /\ UNCHANGED job
            \/ Log(<<"jira:comment/failed">>) /\ Throw
       ELSE at' = "customFields" /\ UNCHANGED << out, job >>
    /\ UNCHANGED << script, callIdle >>

\* if (update.customFields) await this.client.put(...); updateIssue returns
UpdateCustomFields ==
    /\ at = "customFields"
    /\ IF job.update.customFields
       THEN \/ /\ Log(<<"jira:put">>)
               /\ at' = job.ret
               /\ job' = [job EXCEPT !.thrown = FALSE]
            \/ Log(<<"jira:put/failed">>) /\ Throw
       ELSE /\ at' = job.ret
            /\ job' = [job EXCEPT !.thrown = FALSE]
            /\ UNCHANGED out
    /\ UNCHANGED << script, callIdle >>

\* Moved with the line that the ticket was moved after the try statement
MovedPrintsSuccess ==
    /\ at = "moved"
    /\ IF job.thrown
       THEN Log(<<"print:move-failed", "print:move-manually", "print:moved">>)
       ELSE Log(<<"print:moved">>)
    /\ at' = "link"
    /\ UNCHANGED << script, job, callIdle >>

\* the rest of moveToInProgress: the line that the ticket was moved, or in
\* the catch block the failure and the hint
Moved ==
    /\ at = "moved"
    /\ IF job.thrown
       THEN Log(<<"print:move-failed", "print:move-manually">>)
       ELSE Log(<<"print:moved">>)
    /\ at' = "link"
    /\ UNCHANGED << script, job, callIdle >>

\* linkJiraToGitHub calls updateIssue with a comment
LinkJiraToGitHub ==
    /\ at = "link"
    /\ at' = "status"
    /\ job' = [job EXCEPT !.update = [status |-> FALSE, comment |-> TRUE,
                                      customFields |-> FALSE],
                          !.ret = "linked", !.thrown = FALSE]
    /\ UNCHANGED << out, script, callIdle >>

\* the catch block of linkJiraToGitHub warns; run prints that the links
\* were created
Linked ==
    /\ at = "linked"
    /\ IF job.thrown
       THEN Log(<<"print:link-warning", "print:links-created">>)
       ELSE Log(<<"print:links-created">>)
    /\ at' = IF script = "integration" THEN "agent" ELSE "end"
    /\ UNCHANGED << script, job, callIdle >>

\* getCopilotAgentId: the id of the first suggested actor, or null when
\* there is none or the query fails
GetCopilotAgentId ==
    /\ at = "agent"
    /\ \/ job' = [job EXCEPT !.copilotAgentId = TRUE] /\ Log(<<"gh:agent">>)
       \/ job' = [job EXCEPT !.copilotAgentId = FALSE] /\ Log(<<"gh:agent">>)
       \/ /\ job' = [job EXCEPT !.copilotAgentId = FALSE]
          /\ Log(<<"gh:agent/failed", "print:agent-failed">>)
    /\ at' = "issueId"
    /\ UNCHANGED << script, callIdle >>

\* getIssueId: the node id of the issue, or null
GetIssueId ==
    /\ at = "issueId"
    /\ \/ job' = [job EXCEPT !.issueId = TRUE] /\ Log(<<"gh:issueId">>)
       \/ job' = [job EXCEPT !.issueId = FALSE] /\ Log(<<"gh:issueId">>)
       \/ /\ job' = [job EXCEPT !.issueId = FALSE]
          /\ Log(<<"gh:issueId/failed", "print:issueId-failed">>)
    /\ at' = "assign"
    /\ UNCHANGED << script, callIdle >>

\* AssignGuard that asks for the agent id only
AssignGuardAgentOnly ==
    /\ at = "assign"
    /\ IF job.copilotAgentId
       THEN at' = "labels" /\ UNCHANGED out
       ELSE at' = "assigned" /\ Log(<<"print:no-agent">>)
    /\ UNCHANGED << script, job, callIdle >>

\* if (copilotAgentId && issueId) ... else console.warn(...)
AssignGuard ==
    /\ at = "assign"
    /\ IF job.copilotAgentId /\ job.issueId
       THEN at' = "labels" /\ UNCHANGED out
       ELSE at' = "assigned" /\ Log(<<"print:no-agent">>)
    /\ UNCHANGED << script, job, callIdle >>

\* await this.client.rest.issues.addLabels(...)
AddLabels ==
    /\ at = "labels"
    /\ \/ at' = "ghComment" /\ Log(<<"gh:labels">>)
       \/ Abort(<<"gh:labels/failed">>)
    /\ UNCHANGED << script, job, callIdle >>

\* await this.addComment(owner, repo, issueNumber, ...)
AddComment ==
    /\ at = "ghComment"
    /\ \/ at' = "mutation" /\ Log(<<"gh:comment">>)
       \/ Abort(<<"gh:comment/failed">>)
    /\ UNCHANGED << script, job, callIdle >>

\* await this.client.graphql({ query }), the assignment
AssignMutation ==
    /\ at = "mutation"
    /\ \/ at' = "assigned" /\ Log(<<"gh:assign">>)
       \/ Abort(<<"gh:assign/failed">>)
    /\ UNCHANGED << script, job, callIdle >>

\* run prints that the issue was assigned
Assigned ==
    /\ at = "assigned"
    /\ at' = "end"
    /\ Log(<<"print:assigned">>)
    /\ UNCHANGED << script, job, callIdle >>

NextScripts ==
    \/ Begin
    \/ GetIssue
    \/ Fetch
    \/ MapIssue
    \/ RenderItem
    \/ RenderEnd
    \/ Gate
    \/ ParagraphStep
    \/ ParagraphsEnd
    \/ LineStep
    \/ LinesEnd
    \/ Explicit
    \/ Extracted
    \/ Report
    \/ ReaderRepo
    \/ CreateFeatureBranch
    \/ CreateGitHubIssue
    \/ MoveToInProgress
    \/ UpdateStatus
    \/ UpdateComment
    \/ UpdateCustomFields
    \/ Moved
    \/ LinkJiraToGitHub
    \/ Linked
    \/ GetCopilotAgentId
    \/ GetIssueId
    \/ AssignGuard
    \/ AddLabels
    \/ AddComment
    \/ AssignMutation
    \/ Assigned

SpecScripts == InitScripts /\ [][NextScripts]_vars

(***************************************************************************)
(* Properties of the scripts.                                              *)
(***************************************************************************)
\* the request was sent, or the line was printed
Logged(e) == \E i \in 1..Len(out) : out[i] = e

\* C22: in the integration script, the legacy script and the reader, when
\* getAcceptanceCriteria has returned no criteria the script prints that
\* no acceptance criteria were found, before it sends another request;
\* when it has returned one criterion or more the line is never printed
C22_EmptyResultIsSurfaced ==
    (pc = "done" /\ at \notin {"extracting", "report"}) =>
        /\ Logged("print:no-criteria") <=> criteria = <<>>
        /\ Logged("print:criteria") <=> criteria # <<>>
        /\ \A i \in 1..Len(out) :
              out[i] \in {"print:no-criteria", "print:criteria"} =>
                 \A j \in 1..(i - 1) : out[j] = "jira:get"

C22_Witness ==
    /\ script = "reader"
    /\ pc = "done"
    /\ criteria = <<>>
    /\ at = "end"
    /\ Logged("print:no-criteria")

\* fetching the ticket or extracting the criteria has thrown inside the
\* method that the script calls for the extraction
ExtractionThrew ==
    \/ pc = "rejected" /\ at # "extracting"
    \/ script \in {"integration", "legacy"} /\ Len(out) >= 2
          /\ out[2] = "jira:get/failed"

CreateIssueSent == Logged("gh:createIssue") \/ Logged("gh:createIssue/failed")

\* C24: when the fetch or the extraction throws inside
\* getJiraAcceptanceCriteria, the integration script goes on with an empty
\* list and still sends the request that creates the GitHub issue; in the
\* legacy script the same exception ends run with exit code 1 before a
\* branch or an issue is created
C24_SwallowedOrAborted ==
    ExtractionThrew =>
        /\ script = "integration" =>
              /\ job.found = <<>>
              /\ at # "exit1" \/ CreateIssueSent
              /\ at \in {"report", "createIssue"} \/ CreateIssueSent
        /\ script = "legacy" =>
              /\ at = "exit1"
              /\ ~CreateIssueSent
              /\ ~Logged("gh:createBranch")
              /\ out[Len(out)] = "exit:1"

C24_Witness ==
    /\ script = "integration"
    /\ pc = "rejected"
    /\ job.found = <<>>
    /\ Logged("gh:createIssue")
    /\ at = "end"

\* C25: in every getIssue -> getAcceptanceCriteria sequence of the scripts
\* the issue has no acceptanceCriteria, the explicit list adds nothing and
\* the k-th returned id is 'AC-k'
C25_NoExplicitListInScripts ==
    /\ at = "extracting" => acceptanceCriteria = None
    /\ pc = "done" =>
          /\ ExplicitCount = 0
          /\ \A k \in 1..Len(madeBy) : madeBy[k] # "explicit"
          /\ \A k \in 1..Len(criteria) : criteria[k].id = AcId(k)

C25_Witness ==
    /\ script = "legacy"
    /\ pc = "done"
    /\ Len(criteria) >= 2
    /\ Len(job.found) >= 2

\* the requests of updateIssue and of assignIssueToCopilot
JiraUpdateRequests ==
    { "jira:transitions", "jira:transitions/failed", "jira:transition",
      "jira:transition/failed", "jira:comment", "jira:comment/failed",
      "jira:put", "jira:put/failed" }

CopilotRequests ==
    { "gh:agent", "gh:agent/failed", "gh:issueId", "gh:issueId/failed",
      "gh:labels", "gh:labels/failed", "gh:comment", "gh:comment/failed",
      "gh:assign", "gh:assign/failed" }

\* C26: in the integration script no request of a Jira update and no
\* request of the Copilot assignment is sent before the GitHub issue was
\* created; a repository identifier without owner or name ends the run
\* before any request; when createIssue fails the run ends with exit code
\* 1 and no Jira update was requested
C26_NoUpdateBeforeIssue ==
    script = "integration" =>
        /\ \A i \in 1..Len(out) :
              out[i] \in JiraUpdateRequests \cup CopilotRequests =>
                 \E j \in 1..(i - 1) : out[j] = "gh:createIssue"
        /\ (~RepoValid(job.repoIdentifier) /\ at # "begin") =>
              at = "exit1" /\ out = <<"print:failed", "exit:1">>
        /\ Logged("gh:createIssue/failed") =>
              /\ at = "exit1"
              /\ out[Len(out)] = "exit:1"
              /\ \A i \in 1..Len(out) :
                    out[i] \notin JiraUpdateRequests \cup CopilotRequests

C26_Witness ==
    /\ script = "integration"
    /\ Logged("gh:createIssue/failed")
    /\ at = "exit1"


\* the position of the line that moveToInProgress prints after updateIssue
MovedAt ==
    IF Logged("print:moved") \/ Logged("print:move-failed")
    THEN SetMin({i \in 1..Len(out) :
                    out[i] \in {"print:moved", "print:move-failed"}})
    ELSE 0

FailedJiraUpdates ==
    { "jira:transitions/failed", "jira:transition/failed",
      "jira:comment/failed", "jira:put/failed" }

\* updateIssue has thrown in moveToInProgress, in linkJiraToGitHub
MoveThrew ==
    /\ MovedAt > 0
    /\ \E i \in 1..(MovedAt - 1) : out[i] \in FailedJiraUpdates

LinkThrew ==
    /\ MovedAt > 0
    /\ Logged("print:links-created")
    /\ \E i \in (MovedAt + 1)..Len(out) : out[i] \in FailedJiraUpdates

\* a write of assignIssueToCopilot has thrown
AssignThrew ==
    \/ Logged("gh:labels/failed")
    \/ Logged("gh:comment/failed")
    \/ Logged("gh:assign/failed")

\* the run goes on to assignIssueToCopilot after both Jira steps, and a
\* failure of assignIssueToCopilot ends the run with exit code 1 after the
\* issue was created and both Jira steps have run
C27_JiraFailuresAreCaught ==
    script = "integration" =>
        /\ MovedAt > 0 =>
              \/ at \in {"link", "status", "comment", "customFields", "linked"}
              \/ Logged("print:links-created")
        /\ Logged("print:links-created") =>
              \/ at \in {"agent", "issueId", "assign", "labels", "ghComment",
                         "mutation", "assigned", "end"}
              \/ at = "exit1" /\ AssignThrew
        /\ AssignThrew =>
              /\ at = "exit1"
              /\ out[Len(out)] = "exit:1"
              /\ Logged("gh:createIssue")
              /\ Logged("print:links-created")

\* C27 as stated: a failure of moveToInProgress or of linkJiraToGitHub is
\* caught, the run goes on to assignIssueToCopilot and still prints the
\* success line of each of the two steps; a failure of
\* assignIssueToCopilot ends the run with exit code 1 after the issue and
\* the Jira steps
C27_SuccessLinesAfterFailure ==
    /\ C27_JiraFailuresAreCaught
    /\ (script = "integration" /\ Logged("print:links-created")) =>
          Logged("print:moved")

\* C27, amended: after a failure of linkJiraToGitHub the line that the
\* links were created is still printed; after a failure of
\* moveToInProgress the failure and the hint are printed and the line
\* that the ticket was moved is not
C27_LinkLineOnly ==
    /\ C27_JiraFailuresAreCaught
    /\ script = "integration" =>
          /\ MovedAt > 0 => (Logged("print:moved") <=> ~MoveThrew)
          /\ MovedAt > 0 => (Logged("print:move-failed") <=> MoveThrew)
          /\ at \in {"agent", "issueId", "assign", "labels", "ghComment",
                     "mutation", "assigned", "end"} =>
                Logged("print:links-created")
          /\ LinkThrew => Logged("print:link-warning")

C27_Witness ==
    /\ script = "integration"
    /\ MoveThrew
    /\ LinkThrew
    /\ Logged("gh:assign/failed")
    /\ at = "exit1"


\* the place of a request in updateIssue: transition, comment, fields
PartOf(e) ==
    CASE e \in {"jira:transitions", "jira:transitions/failed",
                "jira:transition", "jira:transition/failed"} -> 1
      [] e \in {"jira:comment", "jira:comment/failed"} -> 2
      [] e \in {"jira:put", "jira:put/failed"} -> 3
      [] OTHER -> 0

\* C28: a call of updateIssue sends the requests of the status, then the
\* comment, then the custom fields, each only when asked for; a failed
\* request is the last one of the call and the call throws; when no
\* transition leads to the status nothing is posted for it, the comment
\* is still posted and the call returns normally, so moveToInProgress
\* prints that the ticket was moved
C28_UpdateInOrder ==
    /\ script = "update" =>
          /\ \A i \in 1..Len(out) : \A j \in (i + 1)..Len(out) :
                /\ PartOf(out[i]) <= PartOf(out[j])
                /\ out[i] \notin FailedJiraUpdates
          /\ \A i \in 1..Len(out) :
                /\ out[i] \in JiraUpdateRequests
                /\ PartOf(out[i]) = 1 => job.update.status
                /\ PartOf(out[i]) = 2 => job.update.comment
                /\ PartOf(out[i]) = 3 => job.update.customFields
          /\ at = "returned" =>
                /\ job.thrown <=> \E i \in 1..Len(out) :
                                     out[i] \in FailedJiraUpdates
                /\ ~job.thrown =>
                      /\ job.update.status <=> Logged("jira:transitions")
                      /\ job.update.comment <=> Logged("jira:comment")
                      /\ job.update.customFields <=> Logged("jira:put")
    /\ (script = "integration" /\ MovedAt > 0) =>
          (Logged("print:moved") <=> ~MoveThrew)

C28_Witness ==
    /\ script = "integration"
    /\ Logged("jira:transitions")
    /\ ~Logged("jira:transition")
    /\ Logged("jira:comment")
    /\ Logged("print:moved")

CopilotWrites ==
    { "gh:labels", "gh:labels/failed", "gh:comment", "gh:comment/failed",
      "gh:assign", "gh:assign/failed" }

WriteRank(e) ==
    CASE e \in {"gh:labels", "gh:labels/failed"} -> 1
      [] e \in {"gh:comment", "gh:comment/failed"} -> 2
      [] e \in {"gh:assign", "gh:assign/failed"} -> 3
      [] OTHER -> 0

\* C29: assignIssueToCopilot writes only when both ids are not null, and
\* then labels, comment, assignment in this order; a lookup that fails
\* gives null; without both ids nothing is written, the call returns
\* normally and run prints that the issue was assigned
C29_WritesNeedBothIds ==
    script = "integration" =>
        /\ (at \in {"labels", "ghComment", "mutation"}
              \/ \E i \in 1..Len(out) : out[i] \in CopilotWrites) =>
              job.copilotAgentId /\ job.issueId
        /\ \A i \in 1..Len(out) : \A j \in (i + 1)..Len(out) :
              (out[i] \in CopilotWrites /\ out[j] \in CopilotWrites) =>
                 WriteRank(out[i]) < WriteRank(out[j])
        /\ \A i \in 1..Len(out) :
              out[i] \in CopilotWrites =>
                 \A k \in 1..(WriteRank(out[i]) - 1) :
                    \E j \in 1..(i - 1) : WriteRank(out[j]) = k
        /\ Logged("gh:agent/failed") => ~job.copilotAgentId
        /\ Logged("gh:issueId/failed") => ~job.issueId
        /\ (at \in {"assigned", "end"} /\ ~(job.copilotAgentId /\ job.issueId)) =>
              /\ \A i \in 1..Len(out) : out[i] \notin CopilotWrites
              /\ Logged("print:no-agent")
        /\ at = "end" => Logged("print:assigned")
        /\ (at = "end" /\ job.copilotAgentId /\ job.issueId) =>
              Logged("gh:assign")

C29_Witness ==
    /\ script = "integration"
    /\ at = "end"
    /\ Logged("gh:agent/failed")
    /\ job.issueId
    /\ Logged("print:assigned")

\* C30: in the legacy script the branch is created before the issue; a
\* failure with 'already exists' is tolerated and the run goes on with the
\* generated branch name; any other failure ends the run with exit code 1,
\* no issue created and no Jira update requested
C30_BranchBeforeIssue ==
    script = "legacy" =>
        /\ \A i \in 1..Len(out) :
              out[i] \in {"gh:createIssue", "gh:createIssue/failed"} =>
                 \E j \in 1..(i - 1) :
                    out[j] \in {"gh:createBranch",
                                "gh:createBranch/already-exists"}
        /\ (Logged("gh:createBranch") \/ Logged("gh:createBranch/already-exists")) =>
              /\ job.branchName = FeatureBranchName
              /\ at = "createIssue" \/ CreateIssueSent
        /\ Logged("gh:createBranch/already-exists") =>
              Logged("print:branch-exists")
        /\ Logged("gh:createBranch/failed") =>
              /\ at = "exit1"
              /\ out[Len(out)] = "exit:1"
              /\ ~CreateIssueSent
              /\ \A i \in 1..Len(out) : out[i] \notin JiraUpdateRequests

C30_Witness ==
    /\ script = "legacy"
    /\ Logged("gh:createBranch/already-exists")
    /\ job.branchName = FeatureBranchName
    /\ Logged("gh:createIssue")
    /\ at = "end"

=============================================================================
